---- MODULE Spec2Model ----
(***************************************************************************)
(* @superhero/locator: the service registry (Locator, a Map of name to     *)
(* service), its priority relation (#priority, name to uses), the loader   *)
(* (Loader.lazy, Loader.eager and the pass-by-pass #iterateEagerload) and   *)
(* the teardown (Locator.destroy).                                         *)
(*                                                                         *)
(* One action is one synchronous stretch of the JavaScript code: from a    *)
(* call, or from the continuation of an await, to the next await or to the *)
(* settlement of the call.                                                 *)
(***************************************************************************)
EXTENDS Integers, Sequences, FiniteSets

VARIABLES
  registry,   \* the Locator Map: name -> service instance
  order,      \* the Map's insertion order: the sequence of its keys
  priority,   \* #priority: name -> the uses recorded for it
  eager,      \* the eagerload call in flight, or its settlement
  lazy,       \* the lazyload call in flight, or its settlement
  del,        \* the outcome of the last delete call
  dest,       \* the destroy call in flight, or its settlement
  loc,        \* the outcome of the last locate call
  expand,     \* the service map of an eagerload call and its expansion
  calls,      \* how many eagerload and lazyload calls were made
  overlap     \* the lazyload calls of two callers that may overlap

vars ==
  <<registry, order, priority, eager, lazy, del, dest, loc, expand, calls,
    overlap>>

----------------------------------------------------------------------------
(* Bounds of the model *)

MaxName == 3          \* service names are 1..MaxName
MaxBatch == 2         \* declarations in one eagerload batch
MaxUses == 1          \* names in one declaration's uses
MaxEagerCalls == 1    \* eagerload calls in one behaviour
MaxLazyCalls == 1     \* lazyload calls in one behaviour

(* The retry ceiling of #iterateEagerload: attempt >= 1e3 *)
MaxAttempts == 1000

Names == 1..MaxName

----------------------------------------------------------------------------
(* The modules on disk. A path is modelled by what importing it yields.    *)

DestroyOk     == 1   \* export default new class { destroy() {} }
DestroyFails  == 2   \* export default new class { destroy() { throw new Error() } }
NoDestroy     == 3   \* export default {}
DestroyFalsy  == 4   \* export default new class { destroy() { return Promise.reject() } }
LocatorFile   == 5   \* export default { locate: (locate) => locate(LocatedName) }
EmptyDir      == 6   \* a directory with no locator.* and no index.* file
NoExport      == 7   \* a module with no locate, Locator or default export

Paths == 1..7
InstancePaths == {DestroyOk, DestroyFails, NoDestroy, DestroyFalsy}

(* The name the locator file looks up: locate("some-service") *)
LocatedName == 1

Has(reg, name) == name \in DOMAIN reg

Range(s) == {s[i] : i \in 1..Len(s)}

(* The exports of a module, for the modules that have any of the exports    *)
(* locate, Locator and default. locate is a function, a class or a value    *)
(* that is not callable; Locator has a static locate, is a class with a     *)
(* locate on its prototype and a constructor of no argument (class0) or of  *)
(* one (class1), or is an object with no locate; default has a locate or is *)
(* an instance.                                                             *)
LocateKinds == <<"none", "function", "class", "value">>

LocatorKinds == <<"none", "static", "class0", "class1", "object">>

DefaultKinds == <<"none", "locator", "instance">>

(* the paths of those modules, one for each combination of exports *)
SurfacePaths ==
  (NoExport + 1)..(NoExport + Len(LocateKinds) * Len(LocatorKinds) * Len(DefaultKinds))

(* await import(filepath), part_002:451 *)
Imported(path) ==
  LET n == path - (NoExport + 1)
  IN [locate  |-> LocateKinds[(n % Len(LocateKinds)) + 1],
      Locator |-> LocatorKinds[((n \div Len(LocateKinds)) % Len(LocatorKinds)) + 1],
      default |-> DefaultKinds[(n \div (Len(LocateKinds) * Len(LocatorKinds))) + 1]]

(* the instance that the locate of an export of the module returns: of the  *)
(* export locate (1), of Locator (2), of default (3). The default export    *)
(* taken as the instance is named by the path.                              *)
Made(export, path) == 100 * export + path

(* variant: the default export is looked at before the Locator export *)
ResolveImported_DefaultFirst(imported, path) ==
  IF imported.locate \in {"function", "class"}
  THEN IF imported.locate = "class"
       THEN [type |-> "throw", svc |-> 0, code |-> "E_LOCATOR_UNKNOWN_LOCATOR"]
       ELSE [type |-> "value", svc |-> Made(1, path), code |-> ""]
  ELSE IF imported.default # "none"
  THEN IF imported.default = "locator"
       THEN [type |-> "value", svc |-> Made(3, path), code |-> ""]
       ELSE [type |-> "value", svc |-> path, code |-> ""]
  ELSE IF imported.Locator # "none"
  THEN IF imported.Locator \in {"static", "class0"}
       THEN [type |-> "value", svc |-> Made(2, path), code |-> ""]
       ELSE [type |-> "throw", svc |-> 0, code |-> "E_LOCATOR_UNKNOWN_LOCATOR"]
  ELSE [type |-> "throw", svc |-> 0, code |-> "E_LOCATOR_UNKNOWN_LOCATOR"]

(* #resolveLocator, part_002:473-541, of the exports of a module *)
ResolveImported(imported, path) ==
  IF imported.locate \in {"function", "class"}
  THEN IF imported.locate = "class"
       THEN [type |-> "throw", svc |-> 0, code |-> "E_LOCATOR_UNKNOWN_LOCATOR"]
       ELSE [type |-> "value", svc |-> Made(1, path), code |-> ""]
  ELSE IF imported.Locator # "none"
  THEN IF imported.Locator = "static"
       THEN [type |-> "value", svc |-> Made(2, path), code |-> ""]
       ELSE IF imported.Locator = "class0"
       THEN [type |-> "value", svc |-> Made(2, path), code |-> ""]
       ELSE [type |-> "throw", svc |-> 0, code |-> "E_LOCATOR_UNKNOWN_LOCATOR"]
  ELSE IF imported.default # "none"
  THEN IF imported.default = "locator"
       THEN [type |-> "value", svc |-> Made(3, path), code |-> ""]
       ELSE [type |-> "value", svc |-> path, code |-> ""]
  ELSE [type |-> "throw", svc |-> 0, code |-> "E_LOCATOR_UNKNOWN_LOCATOR"]

(* The values that if(service) takes for false: undefined (0), null (-1),   *)
(* false (-2), the number 0 (-3) and the empty string (-4). An instance is  *)
(* a positive number.                                                       *)
FalsyValues == -4..0

IsTruthy(service) == service \notin FalsyValues

(* the paths of the modules export function locate() { return v }, one for  *)
(* each falsy value v                                                       *)
FalsyPaths ==
  {NoExport + Len(LocateKinds) * Len(LocatorKinds) * Len(DefaultKinds) + k :
     k \in 1..Cardinality(FalsyValues)}

(* what the locate of the module at a path of FalsyPaths returns *)
Returned(path) ==
  (NoExport + Len(LocateKinds) * Len(LocatorKinds) * Len(DefaultKinds) + 1) - path

(* #resolveLocator (with #resolveFile and #resolveDirectory before it): the *)
(* instance a path yields, an error thrown on the way, or nothing. An       *)
(* imported module is cached, so a path always yields the same instance:    *)
(* the instance is named by its path.                                       *)
ResolveLocator(path, reg) ==
  IF path \in SurfacePaths THEN ResolveImported(Imported(path), path)
  ELSE IF path \in FalsyPaths
  THEN [type |-> "value", svc |-> Returned(path), code |-> ""]
  ELSE IF path \in InstancePaths THEN [type |-> "value", svc |-> path, code |-> ""]
  ELSE IF path = LocatorFile
  THEN IF Has(reg, LocatedName)
       THEN [type |-> "value", svc |-> reg[LocatedName], code |-> ""]
       ELSE [type |-> "throw", svc |-> 0, code |-> "E_LOCATOR_LOCATE"]
  ELSE IF path = EmptyDir THEN [type |-> "nothing", svc |-> 0, code |-> ""]
  ELSE [type |-> "throw", svc |-> 0, code |-> "E_LOCATOR_UNKNOWN_LOCATOR"]

(* variant: set is called with whatever the path yields *)
ResolveService_AnyValue(path, reg) ==
  LET r == ResolveLocator(path, reg)
  IN IF r.type = "nothing"
     THEN [type |-> "value", svc |-> 0, code |-> ""]
     ELSE r

(* #resolveService, part_002:365-383: if(service), a truthy instance is     *)
(* registered; a falsy value, or none, is E_LOCATOR_SERVICE_UNRESOLVABLE.   *)
ResolveService(path, reg) ==
  LET r == ResolveLocator(path, reg)
  IN IF r.type = "nothing" \/ (r.type = "value" /\ ~IsTruthy(r.svc))
     THEN [type |-> "throw", svc |-> 0, code |-> "E_LOCATOR_SERVICE_UNRESOLVABLE"]
     ELSE r

(* Map.prototype.set: a new key goes to the end, a known key keeps its place *)
MapSet(reg, name, svc) ==
  [n \in DOMAIN reg \cup {name} |-> IF n = name THEN svc ELSE reg[n]]

OrderSet(ord, reg, name) == IF Has(reg, name) THEN ord ELSE Append(ord, name)

(* Map.prototype.delete *)
MapDelete(map, name) == [n \in DOMAIN map \ {name} |-> map[n]]

OrderDelete(ord, name) ==
  LET Keep(n) == n # name
  IN SelectSeq(ord, Keep)

----------------------------------------------------------------------------
(* Loader.eager and #iterateEagerload *)

Decls == [name : Names, path : Paths,
          uses : UNION {[1..k -> Names] : k \in 0..MaxUses}]

Batches == UNION {[1..k -> Decls] : k \in 0..MaxBatch}

(* The eagerload call: batch is the expanded serviceConfigs; cfgs, the      *)
(* serviceConfigs of the pass, and queued, its queuedServiceConfigs, hold   *)
(* the places of their declarations in batch; errors, its                   *)
(* resolveServicePathErrors, holds the code of the error of queued[m] at m. *)
(* loaded and passes record the declarations registered by the call and     *)
(* the attempt each was registered in.                                      *)
IdleEager ==
  [pc |-> "idle", batch |-> <<>>, cfgs |-> <<>>, idx |-> 0, queued |-> <<>>,
   errors |-> <<>>, attempt |-> 0, error |-> "", cause |-> <<>>,
   names0 |-> {}, loaded |-> <<>>, passes |-> <<>>]

(* variant: the check of uses left out *)
UsesLoaded_Unchecked(uses, reg) == TRUE

(* the check of part_002:134-142: every name of uses is in the registry *)
UsesLoaded(uses, reg) == \A k \in 1..Len(uses) : Has(reg, uses[k])

(* variant: a declaration that is registered is attempted again *)
NextAttempt_NoSkip(e, reg) ==
  LET cand == {j \in e.idx..Len(e.cfgs) :
                 UsesLoaded(e.batch[e.cfgs[j]].uses, reg)}
  IN IF cand = {} THEN Len(e.cfgs) + 1
     ELSE CHOOSE j \in cand : \A k \in cand : j <= k

(* The for loop of #iterateEagerload from place e.idx of the pass on: a     *)
(* declaration that is registered is skipped and one that fails the check   *)
(* of uses is queued, both without an await, so the loop runs on to the     *)
(* first declaration it attempts to resolve (Len(cfgs) + 1: to the end of   *)
(* the pass).                                                               *)
NextAttempt(e, reg) ==
  LET cand == {j \in e.idx..Len(e.cfgs) :
                 /\ ~Has(reg, e.batch[e.cfgs[j]].name)
                 /\ UsesLoaded(e.batch[e.cfgs[j]].uses, reg)}
  IN IF cand = {} THEN Len(e.cfgs) + 1
     ELSE CHOOSE j \in cand : \A k \in cand : j <= k

(* variant: a declaration that fails the check of uses is not queued *)
PriorityFailed_Dropped(e, j, reg) == <<>>

(* the declarations at e.idx..j-1 that the loop queued: those not registered *)
PriorityFailed(e, j, reg) ==
  LET Unregistered(i) == ~Has(reg, e.batch[i].name)
  IN SelectSeq(SubSeq(e.cfgs, e.idx, j - 1), Unregistered)

PriorityErrors(failed) ==
  [k \in 1..Len(failed) |-> "E_LOCATOR_SERVICE_PRIORITY"]

EagerFailed(e, code, cause) ==
  [e EXCEPT !.pc = "failed", !.error = code, !.cause = cause]

RECURSIVE RunLoop(_, _)
RECURSIVE EndOfPass(_, _)

(* variant: a first pass in which every declaration failed is retried *)
EndOfPass_OneMorePass(e, reg) ==
  IF Len(e.errors) > 0 /\ Len(e.errors) = Len(e.cfgs) /\ e.attempt >= 2
  THEN EagerFailed(e, "E_LOCATOR_EAGERLOAD", e.errors)
  ELSE IF e.attempt >= MaxAttempts
  THEN EagerFailed(e, "E_LOCATOR_EAGERLOAD", e.errors)
  ELSE IF Len(e.queued) > 0
  THEN RunLoop([e EXCEPT !.cfgs = e.queued, !.idx = 1, !.queued = <<>>,
                         !.errors = <<>>, !.attempt = e.attempt + 1], reg)
  ELSE [e EXCEPT !.pc = "ok"]

(* The end of a pass, part_002:164-197: every declaration failed, the       *)
(* ceiling, another pass with the queued declarations, or success.          *)
EndOfPass(e, reg) ==
  IF Len(e.errors) > 0 /\ Len(e.errors) = Len(e.cfgs)
  THEN EagerFailed(e, "E_LOCATOR_EAGERLOAD", e.errors)
  ELSE IF e.attempt >= MaxAttempts
  THEN EagerFailed(e, "E_LOCATOR_EAGERLOAD", e.errors)
  ELSE IF Len(e.queued) > 0
  THEN RunLoop([e EXCEPT !.cfgs = e.queued, !.idx = 1, !.queued = <<>>,
                         !.errors = <<>>, !.attempt = e.attempt + 1], reg)
  ELSE [e EXCEPT !.pc = "ok"]

(* The loop from place e.idx on, up to the next await or the settlement of  *)
(* the call.                                                                *)
RunLoop(e, reg) ==
  LET j      == NextAttempt(e, reg)
      failed == PriorityFailed(e, j, reg)
      f      == [e EXCEPT !.queued = e.queued \o failed,
                          !.errors = e.errors \o PriorityErrors(failed)]
  IN IF j <= Len(e.cfgs)
     THEN [f EXCEPT !.pc = "resolve", !.idx = j]
     ELSE EndOfPass([f EXCEPT !.idx = j], reg)

(* variant: the error caught for a declaration fails the call at once *)
Queued_AsFailure(e, code, reg) ==
  EagerFailed(e, "E_LOCATOR_EAGERLOAD", <<code>>)

(* variant: the error caught is put before the errors of the pass *)
Queued_ErrorFirst(e, code, reg) ==
  RunLoop([e EXCEPT !.idx = e.idx + 1,
                    !.queued = Append(e.queued, e.cfgs[e.idx]),
                    !.errors = <<code>> \o e.errors], reg)

(* the declaration at e.idx is queued with the error caught for it, and the *)
(* loop goes on                                                             *)
Queued(e, code, reg) ==
  RunLoop([e EXCEPT !.idx = e.idx + 1,
                    !.queued = Append(e.queued, e.cfgs[e.idx]),
                    !.errors = Append(e.errors, code)], reg)

(* variant: every error caught is queued *)
Caught_AlwaysQueued(e, code, reg) == Queued(e, code, reg)

(* variant: an error of locate is thrown on like E_LOCATOR_SERVICE_UNRESOLVABLE *)
Caught_LocateFatal(e, code, reg) ==
  IF code \in {"E_LOCATOR_SERVICE_UNRESOLVABLE", "E_LOCATOR_LOCATE"}
  THEN EagerFailed(e, code, <<>>)
  ELSE Queued(e, code, reg)

(* The catch block, part_002:147-161, for an error of #resolveService:      *)
(* E_LOCATOR_SERVICE_UNRESOLVABLE is thrown on as it is                     *)
Caught(e, code, reg) ==
  IF code = "E_LOCATOR_SERVICE_UNRESOLVABLE"
  THEN EagerFailed(e, code, <<>>)
  ELSE Queued(e, code, reg)

(* eagerload(serviceMap): the map is normalised and expanded to the         *)
(* declarations cfgs; the expansion is awaited.                             *)
EagerCall(cfgs) ==
  /\ eager.pc = "idle"
  /\ calls.eager < MaxEagerCalls
  /\ eager' = [IdleEager EXCEPT !.pc = "expand", !.batch = cfgs,
                                !.names0 = DOMAIN registry]
  /\ calls' = [calls EXCEPT !.eager = @ + 1]
  /\ UNCHANGED <<registry, order, priority, lazy, del, dest, loc, expand,
                 overlap>>

(* #iterateEagerload(serviceConfigs), attempt = 1, up to its first await *)
Iterated(e, reg) ==
  RunLoop([e EXCEPT !.cfgs = [i \in 1..Len(e.batch) |-> i],
                    !.idx = 1, !.attempt = 1], reg)

(* the expansion is done: the first pass starts *)
EagerIterate ==
  /\ eager.pc = "expand"
  /\ eager' = Iterated(eager, registry)
  /\ UNCHANGED <<registry, order, priority, lazy, del, dest, loc, expand,
                 calls, overlap>>

EagerWorld ==
  [registry |-> registry, order |-> order, priority |-> priority,
   eager |-> eager]

(* The continuation of await this.#resolveService of the declaration at     *)
(* idx, on w = [registry, order, priority, eager]: the service is set and   *)
(* its uses recorded, or the error is caught; the loop goes on.             *)
(* variant: the uses are recorded in #priority even when there are none *)
Resolved_AlwaysRecords(w) ==
  LET e == w.eager
      d == e.batch[e.cfgs[e.idx]]
      r == ResolveService(d.path, w.registry)
  IN IF r.type = "value"
     THEN LET reg == MapSet(w.registry, d.name, r.svc)
          IN [registry |-> reg,
              order    |-> OrderSet(w.order, w.registry, d.name),
              priority |-> MapSet(w.priority, d.name, d.uses),
              eager    |-> RunLoop(
                             [e EXCEPT
                                !.idx = e.idx + 1,
                                !.loaded = Append(e.loaded, e.cfgs[e.idx]),
                                !.passes = Append(e.passes, e.attempt)], reg)]
     ELSE [w EXCEPT !.eager = Caught(e, r.code, w.registry)]

(* variant: the loop goes on with the registry as it was before the set *)
Resolved_StaleRegistry(w) ==
  LET e == w.eager
      d == e.batch[e.cfgs[e.idx]]
      r == ResolveService(d.path, w.registry)
  IN IF r.type = "value"
     THEN LET reg == MapSet(w.registry, d.name, r.svc)
          IN [registry |-> reg,
              order    |-> OrderSet(w.order, w.registry, d.name),
              priority |-> IF Len(d.uses) > 0
                           THEN MapSet(w.priority, d.name, d.uses)
                           ELSE w.priority,
              eager    |-> RunLoop(
                             [e EXCEPT
                                !.idx = e.idx + 1,
                                !.loaded = Append(e.loaded, e.cfgs[e.idx]),
                                !.passes = Append(e.passes, e.attempt)],
                             w.registry)]
     ELSE [w EXCEPT !.eager = Caught(e, r.code, w.registry)]

(* variant: a call that fails takes back what it has registered *)
Resolved_RollsBack(w) ==
  LET e == w.eager
      d == e.batch[e.cfgs[e.idx]]
      r == ResolveService(d.path, w.registry)
      f == Caught(e, r.code, w.registry)
      Before(n) == n \in e.names0
  IN IF r.type = "value"
     THEN LET reg == MapSet(w.registry, d.name, r.svc)
          IN [registry |-> reg,
              order    |-> OrderSet(w.order, w.registry, d.name),
              priority |-> IF Len(d.uses) > 0
                           THEN MapSet(w.priority, d.name, d.uses)
                           ELSE w.priority,
              eager    |-> RunLoop(
                             [e EXCEPT
                                !.idx = e.idx + 1,
                                !.loaded = Append(e.loaded, e.cfgs[e.idx]),
                                !.passes = Append(e.passes, e.attempt)], reg)]
     ELSE IF f.pc = "failed"
     THEN [registry |-> [n \in DOMAIN w.registry \cap e.names0 |-> w.registry[n]],
           order    |-> SelectSeq(w.order, Before),
           priority |-> [n \in DOMAIN w.priority \cap e.names0 |-> w.priority[n]],
           eager    |-> f]
     ELSE [w EXCEPT !.eager = f]

Resolved(w) ==
  LET e == w.eager
      d == e.batch[e.cfgs[e.idx]]
      r == ResolveService(d.path, w.registry)
  IN IF r.type = "value"
     THEN LET reg == MapSet(w.registry, d.name, r.svc)
          IN [registry |-> reg,
              order    |-> OrderSet(w.order, w.registry, d.name),
              priority |-> IF Len(d.uses) > 0
                           THEN MapSet(w.priority, d.name, d.uses)
                           ELSE w.priority,
              eager    |-> RunLoop(
                             [e EXCEPT
                                !.idx = e.idx + 1,
                                !.loaded = Append(e.loaded, e.cfgs[e.idx]),
                                !.passes = Append(e.passes, e.attempt)], reg)]
     ELSE [w EXCEPT !.eager = Caught(e, r.code, w.registry)]

EagerStep(w) ==
  /\ registry' = w.registry
  /\ order' = w.order
  /\ priority' = w.priority
  /\ eager' = w.eager

(* the awaited #resolveService of the declaration at idx is done *)
EagerResolved ==
  /\ eager.pc = "resolve"
  /\ EagerStep(Resolved(EagerWorld))
  /\ UNCHANGED <<lazy, del, dest, loc, expand, calls, overlap>>

(* The call from the continuation of one await to its settlement, for a     *)
(* call that no other call overlaps: at most n continuations, taken by      *)
(* halves (the first half is evaluated, by the test of its pc, before the   *)
(* second starts from it).                                                  *)
RECURSIVE Resolutions(_, _)
Resolutions(w, n) ==
  IF w.eager.pc # "resolve" THEN w
  ELSE IF n <= 1 THEN Resolved(w)
  ELSE LET half == Resolutions(w, n \div 2)
       IN IF half.eager.pc # "resolve" THEN half
          ELSE Resolutions(half, n - (n \div 2))

(* no more than MaxAttempts passes, each of no more loads than declarations *)
MaxLoads(e) == MaxAttempts * (Len(e.batch) + 1)

(* eagerload taken whole, from the end of the expansion to its settlement *)
EagerRun ==
  /\ eager.pc = "expand"
  /\ EagerStep(Resolutions(
        [EagerWorld EXCEPT !.eager = Iterated(eager, registry)],
        MaxLoads(eager)))
  /\ UNCHANGED <<lazy, del, dest, loc, expand, calls, overlap>>

----------------------------------------------------------------------------
(* Loader.lazy *)

IdleLazy ==
  [pc |-> "idle", name |-> 0, path |-> 0, result |-> 0, error |-> "",
   cause |-> ""]

(* variant: the path is resolved whether the name is registered or not *)
LazyCall_AlwaysResolves(name, path) ==
  /\ lazy.pc = "idle"
  /\ lazy' = [IdleLazy EXCEPT !.pc = "resolve", !.name = name, !.path = path]
  /\ calls' = [calls EXCEPT !.lazy = @ + 1]
  /\ UNCHANGED <<registry, order, priority, eager, del, dest, loc, expand,
                 overlap>>

(* lazyload(name, path): a registered name is returned as it is, another    *)
(* one awaits #resolveService.                                              *)
LazyCall(name, path) ==
  /\ lazy.pc = "idle"
  /\ lazy' = IF Has(registry, name)
             THEN [IdleLazy EXCEPT !.pc = "ok", !.name = name, !.path = path,
                                   !.result = registry[name]]
             ELSE [IdleLazy EXCEPT !.pc = "resolve", !.name = name,
                                   !.path = path]
  /\ calls' = [calls EXCEPT !.lazy = @ + 1]
  /\ UNCHANGED <<registry, order, priority, eager, del, dest, loc, expand,
                 overlap>>

(* variant: the error of #resolveService is thrown on as it is *)
LazyResolved_Unwrapped ==
  /\ lazy.pc = "resolve"
  /\ LET r == ResolveService(lazy.path, registry)
     IN IF r.type = "value"
        THEN /\ registry' = MapSet(registry, lazy.name, r.svc)
             /\ order' = OrderSet(order, registry, lazy.name)
             /\ lazy' = [lazy EXCEPT !.pc = "ok", !.result = r.svc]
        ELSE /\ UNCHANGED <<registry, order>>
             /\ lazy' = [lazy EXCEPT !.pc = "failed", !.error = r.code]
  /\ UNCHANGED <<priority, eager, del, dest, loc, expand, calls, overlap>>

(* variant: the service is recorded in #priority with the name as its uses *)
LazyResolved_Records ==
  /\ lazy.pc = "resolve"
  /\ LET r == ResolveService(lazy.path, registry)
     IN IF r.type = "value"
        THEN /\ registry' = MapSet(registry, lazy.name, r.svc)
             /\ order' = OrderSet(order, registry, lazy.name)
             /\ priority' = MapSet(priority, lazy.name, <<lazy.name>>)
             /\ lazy' = [lazy EXCEPT !.pc = "ok", !.result = r.svc]
        ELSE /\ UNCHANGED <<registry, order, priority>>
             /\ lazy' = [lazy EXCEPT !.pc = "failed",
                                     !.error = "E_LOCATOR_LAZYLOAD",
                                     !.cause = r.code]
  /\ UNCHANGED <<eager, del, dest, loc, expand, calls, overlap>>

(* the awaited #resolveService is done: the service is set and returned,    *)
(* or the error is wrapped in E_LOCATOR_LAZYLOAD                            *)
LazyResolved ==
  /\ lazy.pc = "resolve"
  /\ LET r == ResolveService(lazy.path, registry)
     IN IF r.type = "value"
        THEN /\ registry' = MapSet(registry, lazy.name, r.svc)
             /\ order' = OrderSet(order, registry, lazy.name)
             /\ lazy' = [lazy EXCEPT !.pc = "ok", !.result = r.svc]
        ELSE /\ UNCHANGED <<registry, order>>
             /\ lazy' = [lazy EXCEPT !.pc = "failed",
                                     !.error = "E_LOCATOR_LAZYLOAD",
                                     !.cause = r.code]
  /\ UNCHANGED <<priority, eager, del, dest, loc, expand, calls, overlap>>

----------------------------------------------------------------------------
(* Locator.delete *)

IdleDel == [pc |-> "idle", name |-> 0, error |-> "", uses |-> <<>>]

(* variant: the entry of the name itself is looked at, not the uses *)
UsedBy_Keys(prio, name) == {n \in DOMAIN prio : n = name}

(* the names whose recorded uses include name: part_001:56-58 *)
UsedBy(prio, name) == {n \in DOMAIN prio : name \in Range(prio[n])}

(* variant: Map.prototype.delete with no guard *)
GuardedDelete_NoGuard(w, name) ==
  [w EXCEPT !.registry = MapDelete(w.registry, name),
            !.order = OrderDelete(w.order, name),
            !.priority = MapDelete(w.priority, name)]

(* Locator.delete on the registry w = [registry, order, priority]: it       *)
(* throws E_LOCATOR_DELETE, or deletes the name from #priority and the Map  *)
GuardedDelete(w, name) ==
  IF UsedBy(w.priority, name) # {}
  THEN [w EXCEPT !.thrown = "E_LOCATOR_DELETE"]
  ELSE [w EXCEPT !.registry = MapDelete(w.registry, name),
                 !.order = OrderDelete(w.order, name),
                 !.priority = MapDelete(w.priority, name)]

(* the uses that #priority.delete(name) has removed, if any *)
Deleted(prio, left, name) ==
  IF Has(prio, name) /\ ~Has(left, name) THEN prio[name] ELSE <<>>

World == [registry |-> registry, order |-> order, priority |-> priority,
          thrown |-> ""]

(* variant: the name is deleted from the Map and its uses stay recorded *)
DeleteCall_KeepsUses(name) ==
  /\ del.pc = "idle"
  /\ LET w == GuardedDelete(World, name)
     IN /\ registry' = w.registry
        /\ order' = w.order
        /\ priority' = priority
        /\ del' = [pc |-> "done", name |-> name, error |-> w.thrown,
                   uses |-> IF Has(priority, name) /\ w.thrown = ""
                            THEN priority[name] ELSE <<>>]
  /\ UNCHANGED <<eager, lazy, dest, loc, expand, calls, overlap>>

DeleteCall(name) ==
  /\ del.pc = "idle"
  /\ LET w == GuardedDelete(World, name)
     IN /\ registry' = w.registry
        /\ order' = w.order
        /\ priority' = w.priority
        /\ del' = [pc |-> "done", name |-> name, error |-> w.thrown,
                   uses |-> Deleted(priority, w.priority, name)]
  /\ UNCHANGED <<eager, lazy, dest, loc, expand, calls, overlap>>

----------------------------------------------------------------------------
(* Locator.locate, part_001:77-87: synchronous, it reads the Map only *)

IdleLoc ==
  [pc |-> "idle", call |-> "", name |-> 0, result |-> 0, error |-> ""]

(* variant: a name that is not registered is looked up as a path *)
Located_Loads(reg, name) ==
  IF Has(reg, name)
  THEN [pc |-> "ok", call |-> "locate", name |-> name, result |-> reg[name],
        error |-> ""]
  ELSE [pc |-> "ok", call |-> "locate", name |-> name, result |-> NoDestroy,
        error |-> ""]

(* has(serviceName) false: E_LOCATOR_LOCATE is thrown; else get(serviceName) *)
Located(reg, name) ==
  IF Has(reg, name)
  THEN [pc |-> "ok", call |-> "locate", name |-> name, result |-> reg[name],
        error |-> ""]
  ELSE [pc |-> "failed", call |-> "locate", name |-> name, result |-> 0,
        error |-> "E_LOCATOR_LOCATE"]

LocateCall(name) ==
  /\ loc.pc = "idle"
  /\ loc' = Located(registry, name)
  /\ UNCHANGED <<registry, order, priority, eager, lazy, del, dest, expand,
                 calls, overlap>>

(* a parameter that no argument is given for: undefined, the name of no     *)
(* service                                                                  *)
Undefined == 0

(* variant: the call is answered by Map.prototype.get *)
Apply_Get(reg, args) ==
  LET serviceName == IF Len(args) >= 1 THEN args[1] ELSE Undefined
  IN [pc |-> "ok", call |-> "locate", name |-> serviceName,
      result |-> IF Has(reg, serviceName) THEN reg[serviceName] ELSE Undefined,
      error |-> ""]

(* the apply trap of the proxy, part_001:35: this.locate.apply(this, arg[2]) *)
(* with arg[2] the arguments of the call                                     *)
Apply(reg, args) ==
  Located(reg, IF Len(args) >= 1 THEN args[1] ELSE Undefined)

(* the locator is called as a function *)
ApplyCall(args) ==
  /\ loc.pc = "idle"
  /\ loc' = [Apply(registry, args) EXCEPT !.call = "apply"]
  /\ UNCHANGED <<registry, order, priority, eager, lazy, del, dest, expand,
                 calls, overlap>>

----------------------------------------------------------------------------
(* Locator.destroy *)

IdleDest ==
  [pc |-> "idle", round |-> 0, entries |-> <<>>, invoked |-> <<>>,
   pending |-> {}, reason |-> <<>>, rejected |-> <<>>, thrown |-> FALSE,
   error |-> "", disabled |-> {}, names0 |-> {}, priority0 |-> <<>>,
   entries0 |-> <<>>, inv |-> <<>>, rem |-> <<>>, failed |-> {}]

(* what service.destroy is: no function, one that returns, one that throws *)
(* an Error when called, one that rejects with no reason                    *)
DestroyKind(svc) ==
  IF svc = DestroyOk THEN "returns"
  ELSE IF svc = DestroyFails THEN "throws"
  ELSE IF svc = DestroyFalsy THEN "rejects"
  ELSE "none"

(* if(reason): only a truthy reason counts as a failure *)
Truthy(reason) == reason = "error"

(* [ ...this.#priority.values() ].flat() *)
Flat(prio) == UNION {Range(prio[n]) : n \in DOMAIN prio}

(* variant: every entry is taken in the round *)
Filtered_All(ord, prio) == ord

(* entries.filter(([ name ]) => false === priority.includes(name)) *)
Filtered(ord, prio) ==
  LET Free(n) == n \notin Flat(prio)
  IN SelectSeq(ord, Free)

Removed(d, w, name) ==
  IF Has(w.registry, name)
  THEN [d EXCEPT !.rem = Append(@, [name |-> name, round |-> d.round])]
  ELSE d

(* this.delete(name); this.#priority.delete(name) in the loop itself: an    *)
(* error of delete leaves the loop and destroy()                            *)
Remove(st, name) ==
  LET w == GuardedDelete(st.w, name)
  IN IF w.thrown # "" THEN [st EXCEPT !.w = w]
     ELSE [w |-> w, d |-> Removed(st.d, st.w, name)]

(* The catch and finally of one destroy invocation: the reason is kept and  *)
(* the service deleted; an error of delete rejects the invocation's promise *)
Settled(st, name, reason) ==
  LET d == [st.d EXCEPT !.reason = MapSet(@, name, reason),
                        !.pending = @ \ {name},
                        !.failed = IF reason = "none" THEN @ ELSE @ \cup {name}]
      w == GuardedDelete(st.w, name)
  IN IF w.thrown # "" THEN [w |-> st.w, d |-> [d EXCEPT !.thrown = TRUE]]
     ELSE [w |-> w, d |-> Removed(d, st.w, name)]

(* variant: every entry of the round is removed with no invocation *)
DestroyOne_Removes(st, name, svc) == Remove(st, name)

(* variant: the entry destroy/<name> of the config is not looked up *)
DestroyOne_Enabled(st, name, svc) ==
  IF DestroyKind(svc) = "none" THEN Remove(st, name)
  ELSE LET called ==
             [st EXCEPT !.d.invoked = Append(@, name),
                        !.d.pending = @ \cup {name},
                        !.d.inv = Append(@, [name |-> name, round |-> st.d.round])]
       IN IF DestroyKind(svc) = "throws"
          THEN Settled(called, name, "error")
          ELSE called

(* the body of the for loop, part_001:128-164 *)
DestroyOne(st, name, svc) ==
  IF name \in st.d.disabled THEN Remove(st, name)
  ELSE IF DestroyKind(svc) = "none" THEN Remove(st, name)
  ELSE LET called ==
             [st EXCEPT !.d.invoked = Append(@, name),
                        !.d.pending = @ \cup {name},
                        !.d.inv = Append(@, [name |-> name, round |-> st.d.round])]
       IN IF DestroyKind(svc) = "throws"
          THEN Settled(called, name, "error")
          ELSE called

(* variant: only the first entry of the round is taken before the await *)
DestroyLoop_FirstOnly(names, k, st) ==
  IF k > Len(names) \/ st.w.thrown # "" THEN st
  ELSE DestroyOne(st, names[k], st.d.entries[names[k]])

RECURSIVE DestroyLoop(_, _, _)
DestroyLoop(names, k, st) ==
  IF k > Len(names) \/ st.w.thrown # "" THEN st
  ELSE DestroyLoop(names, k + 1,
                   DestroyOne(st, names[k], st.d.entries[names[k]]))

(* after the while loop, part_001:178-184: destroy() settles *)
DestroyEnd(w, d) ==
  [w |-> w,
   d |-> IF Len(d.rejected) > 0
         THEN [d EXCEPT !.pc = "failed", !.error = "E_LOCATOR_DESTROY"]
         ELSE [d EXCEPT !.pc = "ok"]]

(* the body of the while loop up to its await Promise.all, part_001:122-166 *)
DestroyBody(w, d) ==
  LET st == DestroyLoop(Filtered(w.order, w.priority), 1,
               [w |-> w,
                d |-> [d EXCEPT !.round = @ + 1, !.entries = w.registry,
                                !.invoked = <<>>, !.reason = <<>>]])
  IN IF st.w.thrown # ""
     THEN [w |-> [st.w EXCEPT !.thrown = ""],
           d |-> [st.d EXCEPT !.pc = "failed", !.error = st.w.thrown]]
     ELSE [st EXCEPT !.d.pc = "await"]

(* variant: if(this.size), one round only *)
DestroyWhile_OneRound(w, d) ==
  IF Len(w.order) = 0 \/ d.round >= 1 THEN DestroyEnd(w, d)
  ELSE DestroyBody(w, d)

(* while(this.size): one more round up to its await Promise.all, or the     *)
(* settlement of destroy()                                                  *)
DestroyWhile(w, d) ==
  IF Len(w.order) = 0 THEN DestroyEnd(w, d) ELSE DestroyBody(w, d)

DestroyStep(st) ==
  /\ registry' = st.w.registry
  /\ order' = st.w.order
  /\ priority' = st.w.priority
  /\ dest' = st.d

(* destroy(), with disabled the names whose config entry destroy/<name>     *)
(* is false while it runs                                                   *)
DestroyCall(disabled) ==
  /\ dest.pc = "idle"
  /\ dest.pending = {}
  /\ DestroyStep(DestroyWhile(World,
       [IdleDest EXCEPT !.disabled = disabled, !.names0 = DOMAIN registry,
                        !.priority0 = priority, !.entries0 = registry]))
  /\ UNCHANGED <<eager, lazy, del, loc, expand, calls, overlap>>

(* one pending destroy invocation settles: it returned, or it rejected *)
DestroySettle(name) ==
  /\ name \in dest.pending
  /\ DestroyStep(Settled([w |-> World, d |-> dest], name,
       IF DestroyKind(dest.entries[name]) = "returns" THEN "none" ELSE "falsy"))
  /\ UNCHANGED <<eager, lazy, del, loc, expand, calls, overlap>>

(* the DestroyService errors of a round, in the order of the invocations *)
RoundRejected(d) ==
  LET Failed(n) == Truthy(d.reason[n])
  IN SelectSeq(d.invoked, Failed)

(* await Promise.all(destroy) is over: the failures are collected and the   *)
(* while loop goes on; a rejected invocation rejects destroy() at once      *)
DestroyRound ==
  /\ dest.pc = "await"
  /\ dest.thrown \/ dest.pending = {}
  /\ IF dest.thrown
     THEN /\ dest' = [dest EXCEPT !.pc = "failed", !.error = "E_LOCATOR_DELETE"]
          /\ UNCHANGED <<registry, order, priority>>
     ELSE DestroyStep(DestroyWhile(World,
            [dest EXCEPT !.rejected = @ \o RoundRejected(dest)]))
  /\ UNCHANGED <<eager, lazy, del, loc, expand, calls, overlap>>

----------------------------------------------------------------------------
(* Strings, as the sequences of their characters *)

Star == "*"

Sep == "/"       \* path.sep

StartsWith(s, prefix) ==
  Len(prefix) <= Len(s) /\ SubSeq(s, 1, Len(prefix)) = prefix

EndsWith(s, suffix) ==
  Len(suffix) <= Len(s) /\ SubSeq(s, Len(s) - Len(suffix) + 1, Len(s)) = suffix

RECURSIVE Split(_, _)
(* String.prototype.split(c) *)
Split(s, c) ==
  IF \A i \in 1..Len(s) : s[i] # c
  THEN <<s>>
  ELSE LET k == CHOOSE i \in 1..Len(s) :
                  s[i] = c /\ \A j \in 1..(i - 1) : s[j] # c
       IN <<SubSeq(s, 1, k - 1)>> \o Split(SubSeq(s, k + 1, Len(s)), c)

----------------------------------------------------------------------------
(* The files of the application: the directories that fs.readdir reads and  *)
(* the modules of their files                                               *)

Base == <<"/", "a", "p", "p">>    \* pathResolver.basePath, also the working directory

File(name) == [name |-> name, kind |-> "file"]

Dir(name) == [name |-> name, kind |-> "dir"]

Directories ==
  << [path |-> <<"/", "a", "p", "p", "/", "s", "e", "r", "v", "i", "c", "e", "s">>,
      entries |-> <<File(<<"a", ".", "j", "s">>), File(<<"b", ".", "j", "s">>), File(<<"b", ".", "t", "e", "s", "t", ".", "j", "s">>)>>],
     [path |-> <<"/", "a", "p", "p", "/", "m", "o", "d", "s">>,
      entries |-> <<Dir(<<"x">>), Dir(<<"y">>), File(<<"z", ".", "j", "s">>)>>],
     [path |-> <<"/", "a", "p", "p", "/", "m", "o", "d", "s", "/", "x">>, entries |-> <<File(<<"i", "n", "d", "e", "x", ".", "j", "s">>)>>],
     [path |-> <<"/", "a", "p", "p", "/", "m", "o", "d", "s", "/", "y">>, entries |-> <<File(<<"i", "n", "d", "e", "x", ".", "j", "s">>)>>],
     [path |-> <<"/", "a", "p", "p", "/", "d", "o", "c", "s">>,
      entries |-> <<File(<<"c", ".", "s", "p", "e", "c", ".", "j", "s">>), File(<<"d", ".", "m", "d">>)>>],
     [path |-> <<"/", "a", "p", "p", "/", "e", "m", "p", "t", "y">>, entries |-> <<>>] >>

(* the module each file exports: DestroyOk for b.js, NoDestroy for others *)
Modules ==
  << [path |-> <<"/", "a", "p", "p", "/", "s", "e", "r", "v", "i", "c", "e", "s", "/", "a", ".", "j", "s">>, module |-> NoDestroy],
     [path |-> <<"/", "a", "p", "p", "/", "s", "e", "r", "v", "i", "c", "e", "s", "/", "b", ".", "j", "s">>, module |-> DestroyOk],
     [path |-> <<"/", "a", "p", "p", "/", "s", "e", "r", "v", "i", "c", "e", "s", "/", "b", ".", "t", "e", "s", "t", ".", "j", "s">>, module |-> NoDestroy],
     [path |-> <<"/", "a", "p", "p", "/", "m", "o", "d", "s", "/", "z", ".", "j", "s">>, module |-> NoDestroy],
     [path |-> <<"/", "a", "p", "p", "/", "m", "o", "d", "s", "/", "x", "/", "i", "n", "d", "e", "x", ".", "j", "s">>, module |-> NoDestroy],
     [path |-> <<"/", "a", "p", "p", "/", "m", "o", "d", "s", "/", "y", "/", "i", "n", "d", "e", "x", ".", "j", "s">>, module |-> NoDestroy],
     [path |-> <<"/", "a", "p", "p", "/", "d", "o", "c", "s", "/", "c", ".", "s", "p", "e", "c", ".", "j", "s">>, module |-> NoDestroy] >>

(* a path as the file system takes it: relative to the working directory    *)
(* when it starts with "./", and with no separator at its end               *)
Absolute(p) ==
  LET a == IF StartsWith(p, <<".", "/">>) THEN Base \o SubSeq(p, 2, Len(p)) ELSE p
  IN IF Len(a) > 1 /\ a[Len(a)] = Sep THEN SubSeq(a, 1, Len(a) - 1) ELSE a

IsDirectory(p) == \E i \in 1..Len(Directories) : Directories[i].path = Absolute(p)

IsFile(p) == \E i \in 1..Len(Modules) : Modules[i].path = Absolute(p)

(* the module pathResolver.resolve imports for the path of a file *)
ModuleAt(p) ==
  Modules[CHOOSE i \in 1..Len(Modules) : Modules[i].path = Absolute(p)].module

----------------------------------------------------------------------------
(* Loader.#expandServiceMap *)

(* #readDirentsByPath, part_002:385-415: the entries of a directory, or     *)
(* E_LOCATOR_INVALID_PATH for ENOENT and for ENOTDIR                        *)
ReadDirentsByPath(dirpath) ==
  IF IsDirectory(dirpath)
  THEN [dirents |-> Directories[CHOOSE i \in 1..Len(Directories) :
                      Directories[i].path = Absolute(dirpath)].entries,
        thrown |-> "", at |-> ""]
  ELSE IF IsFile(dirpath)
  THEN [dirents |-> <<>>, thrown |-> "E_LOCATOR_INVALID_PATH", at |-> "ENOTDIR"]
  ELSE [dirents |-> <<>>, thrown |-> "E_LOCATOR_INVALID_PATH", at |-> "ENOENT"]

FileEndings == {<<"j", "s">>, <<"m", "j", "s">>, <<"c", "j", "s">>}

FileTypes == {<<"t", "e", "s", "t">>, <<"s", "p", "e", "c">>, <<"u", "n", "i", "t">>, <<"i", "n", "t">>, <<"e", "2", "e">>, <<"e", "x", "a", "m", "p", "l", "e">>, <<"d", "e", "m", "o">>}

(* variant: only the expected ending is looked at *)
IsInvalidFile_EndingOnly(filename, expectation) ==
  expectation # <<>> /\ ~EndsWith(filename, expectation)

(* #isInvalidFile, part_002:417-447 *)
IsInvalidFile(filename, expectation) ==
  \/ expectation # <<>> /\ ~EndsWith(filename, expectation)
  \/ \A ending \in FileEndings : ~EndsWith(filename, <<".">> \o ending)
  \/ \E ending \in FileEndings, type \in FileTypes :
       EndsWith(filename, <<".">> \o type \o <<".">> \o ending)

RECURSIVE ExpandServiceWildcardsIterater(_, _, _, _, _, _, _)
RECURSIVE ExpandDirents(_, _, _, _, _, _, _, _, _)

(* the for loop of part_002:327-361 from the dirent at k on; x holds the    *)
(* serviceConfigs pushed so far and what was thrown                         *)
ExpandDirents(x, dirents, k, uses, partialName, partialPath, splitName, splitPath, depth) ==
  IF k > Len(dirents) \/ x.thrown # ""
  THEN x
  ELSE LET dirent == dirents[k]
           sp == splitPath[depth + 1]
           sn == splitName[depth + 1]
           y  == IF dirent.kind = "file" /\ depth = Len(splitPath) - 1
                 THEN IF IsInvalidFile(dirent.name, sp)
                      THEN x
                      ELSE ExpandServiceWildcardsIterater(x, uses,
                             partialName
                               \o SubSeq(dirent.name, 1,
                                         Len(dirent.name) - Len(sp))
                               \o sn,
                             partialPath \o dirent.name,
                             splitName, splitPath, depth + 1)
                 ELSE IF dirent.kind = "dir"
                 THEN IF sp = <<>> \/ sp[1] # Sep
                      THEN x
                      ELSE ExpandServiceWildcardsIterater(x, uses,
                             partialName \o dirent.name \o sn,
                             partialPath \o dirent.name \o sp,
                             splitName, splitPath, depth + 1)
                 ELSE x
       IN ExpandDirents(y, dirents, k + 1, uses, partialName, partialPath,
                        splitName, splitPath, depth)

(* #expandServiceWildcardsIterater, part_002:314-363 *)
ExpandServiceWildcardsIterater(x, uses, partialName, partialPath, splitName, splitPath, depth) ==
  IF depth = Len(splitName)
  THEN [x EXCEPT !.configs = Append(@, [name |-> partialName,
                                        path |-> partialPath,
                                        uses |-> uses])]
  ELSE LET r == ReadDirentsByPath(partialPath)
       IN IF r.thrown # ""
          THEN [x EXCEPT !.thrown = r.thrown, !.at = r.at]
          ELSE ExpandDirents(x, r.dirents, 1, uses, partialName, partialPath,
                             splitName, splitPath, depth)

(* variant: a declaration whose wildcards do not pair is left out *)
ExpandServiceWildcards_SkipsMismatch(x, conf) ==
  LET splitName == Split(conf.name, Star)
      splitPath == Split(conf.path, Star)
  IN IF Len(splitName) # Len(splitPath)
     THEN x
     ELSE LET y == ExpandServiceWildcardsIterater(x, conf.uses, splitName[1],
                     splitPath[1], splitName, splitPath, 1)
          IN IF y.thrown = "" /\ Len(y.configs) = Len(x.configs)
             THEN [y EXCEPT !.thrown = "E_LOCATOR_INVALID_PATH",
                            !.at = "nomatch"]
             ELSE y

(* variant: it throws only when there is no serviceConfig at all *)
ExpandServiceWildcards_AnyConfigs(x, conf) ==
  LET splitName == Split(conf.name, Star)
      splitPath == Split(conf.path, Star)
  IN IF Len(splitName) # Len(splitPath)
     THEN [x EXCEPT !.thrown = "E_LOCATOR_INVALID_PATH", !.at = "wildcards"]
     ELSE LET y == ExpandServiceWildcardsIterater(x, conf.uses, splitName[1],
                     splitPath[1], splitName, splitPath, 1)
          IN IF y.thrown = "" /\ Len(y.configs) = 0
             THEN [y EXCEPT !.thrown = "E_LOCATOR_INVALID_PATH",
                            !.at = "nomatch"]
             ELSE y

(* #expandServiceWildcards, part_002:290-312 *)
ExpandServiceWildcards(x, conf) ==
  LET splitName == Split(conf.name, Star)
      splitPath == Split(conf.path, Star)
  IN IF Len(splitName) # Len(splitPath)
     THEN [x EXCEPT !.thrown = "E_LOCATOR_INVALID_PATH", !.at = "wildcards"]
     ELSE LET y == ExpandServiceWildcardsIterater(x, conf.uses, splitName[1],
                     splitPath[1], splitName, splitPath, 1)
          IN IF y.thrown = "" /\ Len(y.configs) = Len(x.configs)
             THEN [y EXCEPT !.thrown = "E_LOCATOR_INVALID_PATH",
                            !.at = "nomatch"]
             ELSE y

(* #normalizeServiceConf, part_002:200-243, for a serviceConf that is true, *)
(* a string, an array of names, an object with path and uses (either may be *)
(* missing) or a number                                                     *)
NormalizeServiceConf(serviceName, serviceConf) ==
  IF serviceConf.type = "Boolean"
  THEN [name |-> serviceName, path |-> serviceName, uses |-> <<>>,
        thrown |-> ""]
  ELSE IF serviceConf.type = "String"
  THEN [name |-> serviceName, path |-> serviceConf.path, uses |-> <<>>,
        thrown |-> ""]
  ELSE IF serviceConf.type = "Array"
  THEN [name |-> serviceName, path |-> serviceName, uses |-> serviceConf.uses,
        thrown |-> ""]
  ELSE IF serviceConf.type = "Object"
  THEN [name |-> serviceName,
        path |-> IF serviceConf.hasPath THEN serviceConf.path ELSE serviceName,
        uses |-> serviceConf.uses, thrown |-> ""]
  ELSE [name |-> serviceName, path |-> <<>>, uses |-> <<>>,
        thrown |-> "E_LOCATOR_INVALID_SERVICE_CONFIG"]

(* if(serviceConf), part_002:258 *)
TruthyConf(serviceConf) ==
  IF serviceConf.type = "Boolean" THEN serviceConf.value
  ELSE IF serviceConf.type = "String" THEN serviceConf.path # <<>>
  ELSE IF serviceConf.type = "Number" THEN serviceConf.value
  ELSE IF serviceConf.type \in {"Null", "Undefined"} THEN FALSE
  ELSE TRUE

(* #normalizeServicePath, part_002:269-288, with no path configured for the *)
(* name: a path that starts with "." is joined to the base path             *)
NormalizeServicePath(serviceName, servicePath) ==
  IF StartsWith(servicePath, <<".", "/">>)
  THEN Base \o SubSeq(servicePath, 2, Len(servicePath))
  ELSE IF servicePath = <<".">>
  THEN Base
  ELSE IF StartsWith(servicePath, <<".">>)
  THEN Base \o <<Sep>> \o servicePath
  ELSE servicePath

NoConfigs == [configs |-> <<>>, thrown |-> "", at |-> ""]

RECURSIVE ExpandEntries(_, _, _)
(* the for loop of #expandServiceMap, part_002:256-264, from entry k on *)
ExpandEntries(x, serviceMap, k) ==
  IF k > Len(serviceMap) \/ x.thrown # ""
  THEN x
  ELSE LET entry == serviceMap[k]
           conf  == NormalizeServiceConf(entry.name, entry.conf)
           y     == IF ~TruthyConf(entry.conf)
                    THEN x
                    ELSE IF conf.thrown # ""
                    THEN [x EXCEPT !.thrown = conf.thrown, !.at = "conf"]
                    ELSE ExpandServiceWildcards(x,
                           [name |-> conf.name,
                            path |-> NormalizeServicePath(conf.name, conf.path),
                            uses |-> conf.uses])
       IN ExpandEntries(y, serviceMap, k + 1)

(* #expandServiceMap, part_002:252-267, of the entries of a service map *)
ExpandServiceMap(serviceMap) == ExpandEntries(NoConfigs, serviceMap, 1)

(* the declarations #iterateEagerload is given, each with the module of its *)
(* path                                                                     *)
Declarations(configs) ==
  [i \in 1..Len(configs) |->
     [name |-> configs[i].name, path |-> ModuleAt(configs[i].path),
      uses |-> configs[i].uses]]

IdleExpand ==
  [pc |-> "idle", input |-> [type |-> "None"], map |-> <<>>, conf |-> <<>>,
   configs |-> <<>>, thrown |-> "", at |-> ""]

(* #expandServiceWildcards applied to one declaration, with no              *)
(* serviceConfigs before it                                                 *)
ExpandCall(conf) ==
  /\ expand.pc = "idle"
  /\ LET x == ExpandServiceWildcards(NoConfigs, conf)
     IN expand' = [IdleExpand EXCEPT !.pc = "done", !.conf = conf,
                                     !.configs = x.configs,
                                     !.thrown = x.thrown, !.at = x.at]
  /\ UNCHANGED <<registry, order, priority, eager, lazy, del, dest, loc, calls,
                 overlap>>

(* Object.prototype.toString.call(serviceMap), part_002:89 *)
ServiceMapType(serviceMap) ==
  IF serviceMap.type = "Object" THEN "[object Object]"
  ELSE IF serviceMap.type = "Array" THEN "[object Array]"
  ELSE IF serviceMap.type = "String" THEN "[object String]"
  ELSE IF serviceMap.type = "Number" THEN "[object Number]"
  ELSE IF serviceMap.type = "Boolean" THEN "[object Boolean]"
  ELSE IF serviceMap.type = "Null" THEN "[object Null]"
  ELSE IF serviceMap.type = "Undefined" THEN "[object Undefined]"
  ELSE "[object Function]"

(* the value true of an entry *)
True == [type |-> "Boolean", value |-> TRUE]

RECURSIVE Reduce(_, _, _)
(* serviceMap.reduce(... Object.assign(accumulator, { [service]:true })),   *)
(* part_002:100: a key that the accumulator has keeps its place             *)
Reduce(accumulator, items, k) ==
  IF k > Len(items)
  THEN accumulator
  ELSE Reduce(IF \E i \in 1..Len(accumulator) : accumulator[i].name = items[k]
              THEN accumulator
              ELSE Append(accumulator, [name |-> items[k], conf |-> True]),
              items, k + 1)

(* variant: a value of any other type is taken for an empty service map *)
NormalizeServiceMap_AnyType(serviceMap) ==
  LET serviceMapType == ServiceMapType(serviceMap)
  IN IF serviceMapType = "[object Object]"
     THEN [map |-> serviceMap.map, thrown |-> "", cause |-> <<>>]
     ELSE IF serviceMapType = "[object Array]"
     THEN [map |-> Reduce(<<>>, serviceMap.items, 1), thrown |-> "",
           cause |-> <<>>]
     ELSE IF serviceMapType = "[object String]"
     THEN [map |-> <<[name |-> serviceMap.value, conf |-> True]>>,
           thrown |-> "", cause |-> <<>>]
     ELSE [map |-> <<>>, thrown |-> "", cause |-> <<>>]

(* #normalizeServiceMap, part_002:87-114: the entries of the object it      *)
(* returns, in the order of their keys, or what it throws                   *)
NormalizeServiceMap(serviceMap) ==
  LET serviceMapType == ServiceMapType(serviceMap)
  IN IF serviceMapType = "[object Object]"
     THEN [map |-> serviceMap.map, thrown |-> "", cause |-> <<>>]
     ELSE IF serviceMapType = "[object Array]"
     THEN [map |-> Reduce(<<>>, serviceMap.items, 1), thrown |-> "",
           cause |-> <<>>]
     ELSE IF serviceMapType = "[object String]"
     THEN [map |-> <<[name |-> serviceMap.value, conf |-> True]>>,
           thrown |-> "", cause |-> <<>>]
     ELSE [map |-> <<>>, thrown |-> "E_LOCATOR_INVALID_SERVICE_MAP",
           cause |-> <<"Invalid service map type", serviceMapType>>]

(* eagerload(serviceMap), part_001:111-114 and part_002:72-79: the value is *)
(* normalised when the call is made; eagerload fails with what that throws, *)
(* or the expansion of the service map is awaited                           *)
Eagerload(serviceMap) ==
  LET n == NormalizeServiceMap(serviceMap)
  IN IF n.thrown # ""
     THEN /\ eager.pc = "idle"
          /\ expand.pc = "idle"
          /\ eager' = EagerFailed([IdleEager EXCEPT !.names0 = DOMAIN registry],
                                  n.thrown, n.cause)
          /\ expand' = [IdleExpand EXCEPT !.pc = "invalid",
                                          !.input = serviceMap]
          /\ calls' = [calls EXCEPT !.eager = @ + 1]
          /\ UNCHANGED <<registry, order, priority, lazy, del, dest, loc,
                         overlap>>
     ELSE /\ eager.pc = "idle"
          /\ expand.pc = "idle"
          /\ eager' = [IdleEager EXCEPT !.pc = "expand",
                                        !.names0 = DOMAIN registry]
          /\ expand' = [IdleExpand EXCEPT !.pc = "expanding",
                                          !.input = serviceMap,
                                          !.map = n.map]
          /\ calls' = [calls EXCEPT !.eager = @ + 1]
          /\ UNCHANGED <<registry, order, priority, lazy, del, dest, loc,
                         overlap>>

(* eagerload(serviceMap) of a service map given as an object: its expansion *)
(* is awaited                                                               *)
EagerloadMap(serviceMap) == Eagerload([type |-> "Object", map |-> serviceMap])

(* the expansion is done: it has thrown, and so has eagerload, or the first *)
(* pass over its declarations starts                                        *)
MapExpanded ==
  /\ eager.pc = "expand"
  /\ expand.pc = "expanding"
  /\ LET x == ExpandServiceMap(expand.map)
     IN /\ expand' = [expand EXCEPT !.pc = "expanded", !.configs = x.configs,
                                    !.thrown = x.thrown, !.at = x.at]
        /\ eager' = IF x.thrown # ""
                    THEN EagerFailed(eager, x.thrown, <<>>)
                    ELSE Iterated([eager EXCEPT
                                     !.batch = Declarations(x.configs)],
                                  registry)
  /\ UNCHANGED <<registry, order, priority, lazy, del, dest, loc, calls,
                 overlap>>

----------------------------------------------------------------------------
(* Loader.lazy called by two callers, one call of each at a time            *)

Callers == 1..2

IdleCall ==
  [pc |-> "idle", id |-> 0, name |-> 0, path |-> 0, resolved |-> FALSE,
   met |-> FALSE, result |-> 0, error |-> "", cause |-> ""]

IdleOverlap == [i \in Callers |-> IdleCall]

(* the path of a module of the one export locate, a function *)
SelfLocator == NoExport + 2

(* the instance of a resolution: the locate operation of a module makes a   *)
(* new instance each time it is called (as static locate(locate) { return   *)
(* new Foo(...) } does), named by the call that resolved it; the default    *)
(* export of a module is the same instance each time                        *)
InstanceOf(svc, id) == IF svc > Made(1, 0) THEN Made(10 * id, svc) ELSE svc

(* lazyload(name, path), part_002:39-49, up to its await: a registered name *)
(* is returned as it is, another one awaits #resolveService, whether a call *)
(* for the same name is awaiting it or not (met records that one is)        *)
OverlapCall(i, name, path) ==
  /\ overlap[i].pc = "idle"
  /\ LET others == {j \in Callers : overlap[j].pc = "resolve"
                                       /\ overlap[j].name = name}
         c == [IdleCall EXCEPT !.id = calls.lazy + 1, !.name = name,
                               !.path = path, !.met = others # {}]
     IN overlap' =
          [j \in Callers |->
             IF j = i
             THEN IF Has(registry, name)
                  THEN [c EXCEPT !.pc = "ok", !.result = registry[name]]
                  ELSE [c EXCEPT !.pc = "resolve", !.resolved = TRUE]
             ELSE IF j \in others /\ ~Has(registry, name)
             THEN [overlap[j] EXCEPT !.met = TRUE]
             ELSE overlap[j]]
  /\ calls' = [calls EXCEPT !.lazy = @ + 1]
  /\ UNCHANGED <<registry, order, priority, eager, lazy, del, dest, loc,
                 expand>>

(* the awaited pathResolver.resolve of #resolveService is done,             *)
(* part_002:365-383: the service is set, or the error is thrown and wrapped *)
(* by lazyload in E_LOCATOR_LAZYLOAD, part_002:51-57                        *)
OverlapResolved(i) ==
  /\ overlap[i].pc = "resolve"
  /\ LET c == overlap[i]
         r == ResolveService(c.path, registry)
     IN IF r.type = "value"
        THEN /\ registry' = MapSet(registry, c.name, InstanceOf(r.svc, c.id))
             /\ order' = OrderSet(order, registry, c.name)
             /\ overlap' = [overlap EXCEPT ![i].pc = "return"]
        ELSE /\ UNCHANGED <<registry, order>>
             /\ overlap' = [overlap EXCEPT ![i].pc = "failed",
                                           ![i].error = "E_LOCATOR_LAZYLOAD",
                                           ![i].cause = r.code]
  /\ UNCHANGED <<priority, eager, lazy, del, dest, loc, expand, calls>>

(* the await of #resolveService is over: return this.#locator.get(name),    *)
(* part_002:60                                                              *)
OverlapReturned(i) ==
  /\ overlap[i].pc = "return"
  /\ overlap' = [overlap EXCEPT
                   ![i].pc = "ok",
                   ![i].result = IF Has(registry, overlap[i].name)
                                 THEN registry[overlap[i].name]
                                 ELSE Undefined]
  /\ UNCHANGED <<registry, order, priority, eager, lazy, del, dest, loc,
                 expand, calls>>

(* the calls of the two callers have all settled *)
OverlapSettled ==
  /\ \A i \in Callers : overlap[i].pc \in {"idle", "ok", "failed"}
  /\ \E i \in Callers : overlap[i].pc \in {"ok", "failed"}

----------------------------------------------------------------------------
(* The caller takes the settlement of a call *)

Settled_(pc) == pc \in {"ok", "failed", "done"}

Return ==
  /\ \/ Settled_(eager.pc) \/ Settled_(lazy.pc) \/ Settled_(del.pc)
     \/ (Settled_(dest.pc) /\ dest.pending = {})
     \/ Settled_(loc.pc)
     \/ Settled_(expand.pc)
     \/ OverlapSettled
  /\ eager' = IF Settled_(eager.pc) THEN IdleEager ELSE eager
  /\ lazy' = IF Settled_(lazy.pc) THEN IdleLazy ELSE lazy
  /\ del' = IF Settled_(del.pc) THEN IdleDel ELSE del
  /\ dest' = IF Settled_(dest.pc) /\ dest.pending = {} THEN IdleDest ELSE dest
  /\ loc' = IF Settled_(loc.pc) THEN IdleLoc ELSE loc
  /\ expand' = IF Settled_(expand.pc) \/ Settled_(eager.pc)
               THEN IdleExpand ELSE expand
  /\ overlap' = IF OverlapSettled THEN IdleOverlap ELSE overlap
  /\ UNCHANGED <<registry, order, priority, calls>>

(* no call is in flight and none is waiting to be taken *)
Quiet ==
  /\ eager.pc = "idle"
  /\ lazy.pc = "idle"
  /\ del.pc = "idle"
  /\ dest.pc = "idle"
  /\ loc.pc = "idle"
  /\ expand.pc = "idle"
  /\ \A i \in Callers : overlap[i].pc = "idle"

----------------------------------------------------------------------------
(* The locator after construction, used by one caller at a time *)

Init ==
  /\ registry = <<>>
  /\ order = <<>>
  /\ priority = <<>>
  /\ eager = IdleEager
  /\ lazy = IdleLazy
  /\ del = IdleDel
  /\ dest = IdleDest
  /\ loc = IdleLoc
  /\ expand = IdleExpand
  /\ calls = [eager |-> 0, lazy |-> 0]
  /\ overlap = IdleOverlap

(* the arguments the locator is called with as a function: none, a name, a  *)
(* name and one more                                                        *)
ArgumentLists == UNION {[1..k -> Names] : k \in 0..2}

Next ==
  \/ Quiet /\ \E cfgs \in Batches : EagerCall(cfgs)
  \/ EagerIterate
  \/ EagerResolved
  \/ /\ Quiet
     /\ calls.lazy < MaxLazyCalls
     /\ \E name \in Names, path \in Paths : LazyCall(name, path)
  \/ LazyResolved
  \/ Quiet /\ \E name \in Names : LocateCall(name)
  \/ Quiet /\ \E args \in ArgumentLists : ApplyCall(args)
  \/ Quiet /\ \E name \in Names : DeleteCall(name)
  \/ Quiet /\ \E disabled \in SUBSET DOMAIN registry : DestroyCall(disabled)
  \/ \E name \in Names : DestroySettle(name)
  \/ DestroyRound
  \/ Return

Spec == Init /\ [][Next]_vars

----------------------------------------------------------------------------
(* The loader with batches long enough to reach the retry ceiling: n        *)
(* declarations, each using the next one, the last using none, in the order *)
(* that resolves one declaration per pass. Calls are made one at a time, so *)
(* an eagerload call is taken whole.                                        *)

ReverseChain(n) ==
  [i \in 1..n |-> [name |-> i, path |-> NoDestroy,
                   uses |-> IF i < n THEN <<i + 1>> ELSE <<>>]]

LongBatches ==
  {ReverseChain(MaxAttempts - 1), ReverseChain(MaxAttempts),
   ReverseChain(MaxAttempts + 1)}

NextCeiling ==
  \/ Quiet /\ \E cfgs \in Batches : EagerCall(cfgs)
  \/ Quiet /\ DOMAIN registry = {} /\ \E cfgs \in LongBatches : EagerCall(cfgs)
  \/ EagerRun
  \/ /\ Quiet
     /\ calls.lazy < MaxLazyCalls
     /\ \E name \in Names, path \in Paths : LazyCall(name, path)
  \/ LazyResolved
  \/ Return

SpecCeiling == Init /\ [][NextCeiling]_vars

----------------------------------------------------------------------------
(* Properties of eagerload *)

EagerDone == eager.pc \in {"ok", "failed"}

DeclaredNames(b) == {b[i].name : i \in 1..Len(b)}

(* every name a declaration uses is declared in the batch or was registered *)
(* when eagerload was called                                                *)
UsesKnown(b, names0) ==
  \A i \in 1..Len(b) : Range(b[i].uses) \subseteq DeclaredNames(b) \cup names0

(* One step of peeling the uses relation: the declared names none of whose  *)
(* declarations uses a declared name outside done.                          *)
PeelStep(b, D, done) ==
  LET held == {b[i].name : i \in {k \in 1..Len(b) :
                  \E u \in Range(b[k].uses) : u \in D /\ u \notin done}}
  IN {n \in D : n \in done \/ n \notin held}

(* n steps of peeling, by halves (the first half is evaluated, by the test  *)
(* of its cardinality, before the second starts from it)                    *)
RECURSIVE Peel(_, _, _, _)
Peel(b, D, done, n) ==
  IF n = 0 THEN done
  ELSE IF n = 1 THEN PeelStep(b, D, done)
  ELSE LET half == Peel(b, D, done, n \div 2)
       IN IF Cardinality(half) = Cardinality(D) THEN half
          ELSE Peel(b, D, half, n - (n \div 2))

(* the uses relation among the declared names has no cycle: peeling it      *)
(* leaves no name                                                           *)
AcyclicUses(b) ==
  LET D == DeclaredNames(b)
  IN D \subseteq Peel(b, D, {}, Cardinality(D))

(* the module of every declaration resolves once it is attempted: an        *)
(* instance, or the locator file when the name it looks up is in uses or    *)
(* was registered before                                                    *)
AllResolve(b, names0) ==
  \A i \in 1..Len(b) :
    \/ b[i].path \in InstancePaths
    \/ /\ b[i].path = LocatorFile
       /\ LocatedName \in Range(b[i].uses) \cup names0

AllRegistered(b) == DeclaredNames(b) \subseteq DOMAIN registry

(* the place of name in the sequence of registrations of the call *)
LoadedAt(name) ==
  CHOOSE k \in 1..Len(eager.loaded) : eager.batch[eager.loaded[k]].name = name

(* declaration i is the only one of its name and uses a name that was not   *)
(* registered at the call and is declared only after it                     *)
DeclaredBeforeUse(b, names0, i, u) ==
  /\ b[i].name \notin names0
  /\ \A j \in 1..Len(b) : b[j].name = b[i].name => j = i
  /\ u \in Range(b[i].uses)
  /\ u \notin names0
  /\ \A j \in 1..Len(b) : b[j].name = u => j > i

LateAfterUse(b, names0) ==
  \A i \in 1..Len(b) : \A u \in Range(b[i].uses) :
    DeclaredBeforeUse(b, names0, i, u) =>
      /\ eager.passes[LoadedAt(b[i].name)] >= 2
      /\ LoadedAt(u) < LoadedAt(b[i].name)

Converged ==
  /\ eager.pc = "ok"
  /\ AllRegistered(eager.batch)
  /\ LateAfterUse(eager.batch, eager.names0)

(* C1 as stated: every batch with known, acyclic uses and resolving modules *)
(* is registered whole, whatever its order, and a declaration listed before *)
(* a name it uses is registered in a second or later pass, after that name. *)
C1_AnyBatchConverges ==
  (/\ EagerDone
   /\ AllResolve(eager.batch, eager.names0)
   /\ UsesKnown(eager.batch, eager.names0)
   /\ AcyclicUses(eager.batch))
  => Converged

(* C1, amended: the same for every batch of fewer than 1000 declarations    *)
(* (MaxAttempts, the retry ceiling).                                        *)
C1_BatchBelowCeilingConverges ==
  (/\ EagerDone
   /\ Len(eager.batch) < MaxAttempts
   /\ AllResolve(eager.batch, eager.names0)
   /\ UsesKnown(eager.batch, eager.names0)
   /\ AcyclicUses(eager.batch))
  => Converged

(* the batch [B, A] with A in B's uses has converged *)
C1_Witness ==
  /\ eager.pc = "ok"
  /\ Len(eager.batch) = 2
  /\ eager.names0 = {}
  /\ eager.batch[1].uses = <<eager.batch[2].name>>
  /\ eager.batch[1].name # eager.batch[2].name
  /\ eager.batch[2].uses = <<>>
  /\ AllResolve(eager.batch, {})

----------------------------------------------------------------------------
(* Properties of destroy *)

(* the pairs (B, A) of the start of destroy(): both registered, A recorded  *)
(* in the uses of B                                                         *)
DestroyPairs ==
  {p \in dest.names0 \X dest.names0 :
     /\ p[1] \in DOMAIN dest.priority0
     /\ \E k \in 1..Len(dest.priority0[p[1]]) : dest.priority0[p[1]][k] = p[2]}

(* the rounds in which the destroy operation of name was invoked, and in    *)
(* which name was removed                                                   *)
InvokedRounds(name) ==
  {dest.inv[k].round : k \in {m \in 1..Len(dest.inv) : dest.inv[m].name = name}}

RemovedRounds(name) ==
  {dest.rem[k].round : k \in {m \in 1..Len(dest.rem) : dest.rem[m].name = name}}

Touched(name) ==
  \/ InvokedRounds(name) # {}
  \/ RemovedRounds(name) # {}
  \/ name \notin DOMAIN registry

(* C2: for every pair (B, A) of the start of destroy(), once the destroy    *)
(* operation of A is invoked or A is removed, the invocation of B has       *)
(* settled, B is removed, and B's round is strictly earlier than A's.       *)
C2_DependencyDestroyedLater ==
  \A p \in DestroyPairs :
    Touched(p[2]) =>
      /\ p[1] \notin DOMAIN registry
      /\ p[1] \notin dest.pending
      /\ RemovedRounds(p[1]) # {}
      /\ \A rb \in RemovedRounds(p[1]) :
           \A ra \in InvokedRounds(p[2]) \cup RemovedRounds(p[2]) : rb < ra

(* destroy() is over, and the destroy operations of a dependent and of its  *)
(* dependency were both invoked                                             *)
C2_Witness ==
  /\ dest.pc \in {"ok", "failed"}
  /\ \E p \in DestroyPairs :
       InvokedRounds(p[1]) # {} /\ InvokedRounds(p[2]) # {}

(* name is listed in the uses of a recorded entry *)
ListedInUses(prio, name) ==
  \E n \in DOMAIN prio : \E k \in 1..Len(prio[n]) : prio[n][k] = name

UsesRegistered ==
  \A n \in DOMAIN priority : \A k \in 1..Len(priority[n]) :
    priority[n][k] \in DOMAIN registry

NoUsedNameRemoved ==
  \A n \in DOMAIN registry :
    n \notin DOMAIN registry' => ~ListedInUses(priority, n)

(* C3: every name in the uses of a recorded entry is registered, and no     *)
(* step removes a name that the uses of a recorded entry list.              *)
C3_DependencySafety == []UsesRegistered /\ [][NoUsedNameRemoved]_vars

(* destroy() has removed a dependent and waits, its dependency registered *)
C3_Witness ==
  /\ dest.pc = "await"
  /\ \E p \in DestroyPairs :
       p[1] \notin DOMAIN registry /\ p[2] \in DOMAIN registry

DeleteOutcome ==
  (del.pc = "idle" /\ del'.pc = "done") =>
    IF ListedInUses(priority, del'.name)
    THEN /\ del'.error = "E_LOCATOR_DELETE"
         /\ registry' = registry
         /\ order' = order
         /\ priority' = priority
    ELSE /\ del'.error = ""
         /\ DOMAIN registry' = DOMAIN registry \ {del'.name}
         /\ \A n \in DOMAIN registry' : registry'[n] = registry[n]
         /\ DOMAIN priority' = DOMAIN priority \ {del'.name}
         /\ \A n \in DOMAIN priority' : priority'[n] = priority[n]

(* C4: delete(name) fails with E_LOCATOR_DELETE exactly when the uses of a  *)
(* recorded entry list name, and then changes nothing; otherwise it removes *)
(* name from the registry and from the priority relation.                   *)
C4_DeleteGuard == [][DeleteOutcome]_vars

(* delete was refused for a registered name that is used, and delete is     *)
(* possible for a registered name with an entry of its own                  *)
C4_Witness ==
  /\ del.pc = "done"
  /\ del.error = "E_LOCATOR_DELETE"
  /\ del.name \in DOMAIN registry
  /\ \E n \in DOMAIN priority : n \in DOMAIN registry /\ ~ListedInUses(priority, n)

(* C5: when destroy() has settled, with success or with E_LOCATOR_DESTROY,  *)
(* the registry is empty and the priority relation has no entry.            *)
C5_DestroyDrains ==
  (dest.pc = "ok" \/ (dest.pc = "failed" /\ dest.error = "E_LOCATOR_DESTROY"))
  => (DOMAIN registry = {} /\ DOMAIN priority = {} /\ Len(order) = 0)

(* destroy() failed with E_LOCATOR_DESTROY after two rounds or more, with   *)
(* an entry in the priority relation at its start                           *)
C5_Witness ==
  /\ dest.pc = "failed"
  /\ dest.error = "E_LOCATOR_DESTROY"
  /\ dest.round >= 2
  /\ DOMAIN dest.priority0 # {}
  /\ Cardinality(dest.names0) >= 2

(* C6 as stated: destroy() fails with E_LOCATOR_DESTROY exactly when the    *)
(* destroy invocation of some service threw or rejected, whatever the       *)
(* reason, and the cause then has one E_LOCATOR_DESTROY_SERVICE error for   *)
(* each failed service.                                                     *)
C6_FailsIffAnInvocationFailed ==
  (dest.pc \in {"ok", "failed"} /\ dest.error \in {"", "E_LOCATOR_DESTROY"})
  => /\ (dest.pc = "failed") <=> (dest.failed # {})
     /\ Len(dest.rejected) = Cardinality(dest.failed)
     /\ \A n \in dest.failed : \E k \in 1..Len(dest.rejected) : dest.rejected[k] = n

----------------------------------------------------------------------------
(* Properties of a pass of eagerload *)

Registered(d) == d.name \in DOMAIN registry

Blocked(d) == \E k \in 1..Len(d.uses) : d.uses[k] \notin DOMAIN registry

(* a module is loaded only for a declaration whose uses are all registered *)
LoadsOnlyUnblocked ==
  eager.pc = "resolve" => ~Blocked(eager.batch[eager.cfgs[eager.idx]])

(* a declaration the pass has gone over, unregistered and with a use that   *)
(* is not registered, is in the queue with an E_LOCATOR_SERVICE_PRIORITY    *)
(* error, and the call goes on                                              *)
BlockedIsQueued ==
  eager.pc = "resolve" =>
    /\ Len(eager.errors) = Len(eager.queued)
    /\ \A k \in 1..(eager.idx - 1) :
         (/\ ~Registered(eager.batch[eager.cfgs[k]])
          /\ Blocked(eager.batch[eager.cfgs[k]])) =>
           \E m \in 1..Len(eager.queued) :
             /\ eager.queued[m] = eager.cfgs[k]
             /\ eager.errors[m] = "E_LOCATOR_SERVICE_PRIORITY"

(* no declaration of the batch is lost: it is registered, still to come in  *)
(* the pass, queued, or reported in the cause of E_LOCATOR_EAGERLOAD        *)
NeverDropped ==
  \A i \in 1..Len(eager.batch) :
    \/ Registered(eager.batch[i])
    \/ /\ eager.pc = "resolve"
       /\ \/ \E k \in eager.idx..Len(eager.cfgs) : eager.cfgs[k] = i
          \/ \E m \in 1..Len(eager.queued) : eager.queued[m] = i
    \/ /\ eager.pc = "failed"
       /\ \/ eager.error = "E_LOCATOR_SERVICE_UNRESOLVABLE"
          \/ \E m \in 1..Len(eager.cause) : eager.queued[m] = i
    \/ eager.pc = "expand"

(* a step of eagerload registers at most the name of the declaration whose  *)
(* module was loaded                                                        *)
InsertsOnlyResolved ==
  eager.pc \in {"expand", "resolve"} =>
    DOMAIN registry' \ DOMAIN registry \subseteq
      (IF eager.pc = "resolve" THEN {eager.batch[eager.cfgs[eager.idx]].name}
       ELSE {})

(* the queue of a pass is handed to the next pass *)
QueueHandedOn ==
  (eager.pc = "resolve" /\ eager'.pc = "resolve" /\ eager'.attempt > eager.attempt)
  => \A m \in 1..Len(eager.queued) :
       \/ eager.batch[eager.queued[m]].name \in DOMAIN registry'
       \/ \E k \in 1..Len(eager'.cfgs) : eager'.cfgs[k] = eager.queued[m]

(* C7: a declaration with a name in its uses that is not registered is not  *)
(* resolved in the pass (no module is loaded for it, nothing is registered  *)
(* under its name by it); it is queued with a non-fatal error, handed to    *)
(* the next pass and never dropped from the batch.                          *)
C7_BlockedDeclarationRequeued ==
  /\ [](LoadsOnlyUnblocked /\ BlockedIsQueued /\ NeverDropped)
  /\ [][InsertsOnlyResolved /\ QueueHandedOn]_vars

(* the second pass resolves the one declaration the first pass queued for   *)
(* its uses                                                                 *)
C7_Witness ==
  /\ eager.pc = "resolve"
  /\ eager.attempt = 2
  /\ Len(eager.batch) = 2
  /\ eager.cfgs = <<1>>
  /\ Len(eager.batch[1].uses) > 0

Max(a, b) == IF a >= b THEN a ELSE b

(* the passes are at most max(1, declarations), and a pass after the first  *)
(* has lost a declaration for every pass before it                          *)
PassBound ==
  /\ eager.attempt <= Max(1, Len(eager.batch))
  /\ eager.attempt >= 2 =>
       Len(eager.cfgs) + eager.attempt <= Len(eager.batch) + 1

(* a step that starts a new pass hands it fewer declarations than the pass  *)
(* before received                                                          *)
PassShrinks ==
  LET received == IF eager.pc = "expand" THEN Len(eager.batch)
                  ELSE Len(eager.cfgs)
      before   == IF eager.pc = "expand" THEN 1 ELSE eager.attempt
  IN (eager.pc \in {"expand", "resolve"} /\ eager'.attempt > before)
     => Len(eager'.cfgs) < received

(* The loader alone, with the paths that differ for it (an instance, the   *)
(* locator file, a directory with no entry file, a module with no export)  *)
(* and the name the locator file looks up registered before the call or    *)
(* not.                                                                    *)
EagerPaths == {NoDestroy, LocatorFile, EmptyDir, NoExport}

EagerBatches ==
  {b \in Batches : \A i \in 1..Len(b) : b[i].path \in EagerPaths}

NextEager ==
  \/ Quiet /\ \E cfgs \in EagerBatches : EagerCall(cfgs)
  \/ EagerIterate
  \/ EagerResolved
  \/ Quiet /\ calls.lazy < MaxLazyCalls /\ LazyCall(LocatedName, NoDestroy)
  \/ LazyResolved
  \/ Return

(* every await of the call is resumed: the expansion of the service map and *)
(* every module load terminate                                              *)
FairSpec ==
  /\ Init
  /\ [][NextEager]_vars
  /\ WF_vars(EagerIterate)
  /\ WF_vars(EagerResolved)

(* C8: every eagerload call settles; a new pass receives strictly fewer     *)
(* declarations than the pass before, and the passes are at most            *)
(* max(1, declarations of the batch).                                       *)
C8_EagerloadTerminates ==
  /\ []PassBound
  /\ [][PassShrinks]_vars
  /\ (eager.pc \in {"expand", "resolve"}) ~> EagerDone

(* a call whose uses form a cycle has failed in its first pass *)
C8_Witness ==
  /\ eager.pc = "failed"
  /\ eager.error = "E_LOCATOR_EAGERLOAD"
  /\ eager.attempt = 1
  /\ Len(eager.batch) = 2
  /\ eager.batch[1].uses = <<eager.batch[2].name>>
  /\ eager.batch[2].uses = <<eager.batch[1].name>>
  /\ eager.batch[1].name # eager.batch[2].name

(* C9 as stated: eagerload fails with E_LOCATOR_EAGERLOAD only if a         *)
(* declaration of the batch is still unregistered.                          *)
C9_FailsOnlyUnconverged ==
  (eager.pc = "failed" /\ eager.error = "E_LOCATOR_EAGERLOAD")
  => \E i \in 1..Len(eager.batch) : eager.batch[i].name \notin DOMAIN registry

Unresolvable ==
  (/\ eager.pc = "resolve"
   /\ eager.batch[eager.cfgs[eager.idx]].path = EmptyDir
   /\ eager' # eager)
  => /\ eager'.pc = "failed"
     /\ eager'.error = "E_LOCATOR_SERVICE_UNRESOLVABLE"
     /\ eager'.idx = eager.idx
     /\ eager'.attempt = eager.attempt
     /\ eager'.loaded = eager.loaded
     /\ eager'.queued = eager.queued
     /\ registry' = registry

(* C10: when the path of the declaration being resolved yields no instance, *)
(* eagerload fails in that step with E_LOCATOR_SERVICE_UNRESOLVABLE itself: *)
(* the loop takes no further declaration and starts no further pass.        *)
C10_UnresolvableIsFatal == [][Unresolvable]_vars

(* the call failed so in its second pass, with one declaration registered *)
C10_Witness ==
  /\ eager.pc = "failed"
  /\ eager.error = "E_LOCATOR_SERVICE_UNRESOLVABLE"
  /\ eager.attempt = 2
  /\ Len(eager.loaded) = 1

----------------------------------------------------------------------------
(* Properties of a batch that cannot resolve *)

(* The error declaration d meets whenever it is tried while the registered  *)
(* names are names0: none ("") when it is skipped or resolves.              *)
FailureOf(d, names0) ==
  IF d.name \in names0 THEN ""
  ELSE IF \E k \in 1..Len(d.uses) : d.uses[k] \notin names0
  THEN "E_LOCATOR_SERVICE_PRIORITY"
  ELSE IF d.path = NoExport THEN "E_LOCATOR_UNKNOWN_LOCATOR"
  ELSE IF d.path = LocatorFile /\ LocatedName \notin names0
  THEN "E_LOCATOR_LOCATE"
  ELSE ""

(* every declaration of the batch fails, with an error that is not fatal *)
AllFail(b, names0) ==
  /\ Len(b) >= 1
  /\ \A i \in 1..Len(b) : FailureOf(b[i], names0) # ""

(* C11: when every declaration of a batch (of one declaration or more)      *)
(* fails on every attempt with an error other than                          *)
(* E_LOCATOR_SERVICE_UNRESOLVABLE, eagerload fails with E_LOCATOR_EAGERLOAD, *)
(* its cause holds one error for each declaration, in their order, and no   *)
(* name of the batch is registered.                                         *)
C11_AllFailedIsEagerload ==
  (EagerDone /\ AllFail(eager.batch, eager.names0)) =>
    /\ eager.pc = "failed"
    /\ eager.error = "E_LOCATOR_EAGERLOAD"
    /\ Len(eager.cause) = Len(eager.batch)
    /\ \A i \in 1..Len(eager.batch) :
         /\ eager.queued[i] = i
         /\ eager.cause[i] = FailureOf(eager.batch[i], eager.names0)
         /\ eager.batch[i].name \notin DOMAIN registry
    /\ DOMAIN registry = eager.names0

(* a batch of a module with no export and of a locator file whose lookup    *)
(* fails has failed                                                         *)
C11_Witness ==
  /\ eager.pc = "failed"
  /\ Len(eager.batch) = 2
  /\ eager.batch[1].path = NoExport
  /\ eager.batch[2].path = LocatorFile
  /\ eager.batch[1].uses = <<>>
  /\ eager.batch[2].uses = <<>>
  /\ eager.cause = <<"E_LOCATOR_UNKNOWN_LOCATOR", "E_LOCATOR_LOCATE">>

----------------------------------------------------------------------------
(* lazyload and locate, called again and again, with delete between them *)

MaxLazyRepeats == 3   \* lazyload calls in one behaviour of SpecLazy

NextLazy ==
  \/ /\ Quiet
     /\ calls.lazy < MaxLazyRepeats
     /\ \E name \in Names, path \in Paths : LazyCall(name, path)
  \/ LazyResolved
  \/ Quiet /\ \E name \in Names : LocateCall(name)
  \/ Quiet /\ \E name \in Names : DeleteCall(name)
  \/ Return

SpecLazy == Init /\ [][NextLazy]_vars

(* the paths that yield no instance: a locate that returns a falsy value, a *)
(* directory with no entry file                                             *)
UnresolvablePaths == FalsyPaths \cup {EmptyDir}

(* batches of declarations of such paths and of a module that resolves *)
ResolveBatches ==
  UNION {[1..k -> [name : Names, path : UnresolvablePaths \cup {NoDestroy},
                   uses : {<<>>}]] : k \in 1..MaxBatch}

(* lazyload of the modules of every combination of exports; lazyload and    *)
(* eagerload of the paths that yield no instance                            *)
NextResolve ==
  \/ /\ Quiet
     /\ calls.lazy < MaxLazyCalls
     /\ \E name \in Names, path \in SurfacePaths \cup UnresolvablePaths :
           LazyCall(name, path)
  \/ LazyResolved
  \/ Quiet /\ \E cfgs \in ResolveBatches : EagerCall(cfgs)
  \/ EagerIterate
  \/ EagerResolved
  \/ Quiet /\ \E name \in Names : LocateCall(name)
  \/ Return

SpecResolve == Init /\ [][NextResolve]_vars

MaxOverlapCalls == 3   \* lazyload calls in one behaviour of SpecOverlap

(* a module whose exported locate function makes the instance, a module     *)
(* whose default export is the instance, a module with none of the exports  *)
OverlapPaths == {SelfLocator, NoDestroy, NoExport}

(* no call but those of the two callers is in flight *)
NoOtherCall ==
  /\ eager.pc = "idle"
  /\ lazy.pc = "idle"
  /\ del.pc = "idle"
  /\ dest.pc = "idle"
  /\ loc.pc = "idle"
  /\ expand.pc = "idle"

(* two callers of lazyload: one may call while the call of the other is     *)
(* awaiting its resolution                                                  *)
NextOverlap ==
  \/ /\ NoOtherCall
     /\ calls.lazy < MaxOverlapCalls
     /\ \E i \in Callers, name \in Names, path \in OverlapPaths :
          OverlapCall(i, name, path)
  \/ \E i \in Callers : OverlapResolved(i)
  \/ \E i \in Callers : OverlapReturned(i)
  \/ Quiet /\ \E name \in Names : LocateCall(name)
  \/ Return

SpecOverlap == Init /\ [][NextOverlap]_vars

(* a locate call has just been made *)
LocateStep == loc.pc = "idle" /\ loc'.pc # "idle"

(* a lazyload call has just been made *)
LazyStep == lazy.pc = "idle" /\ lazy'.pc # "idle"

(* locate of a name that is not registered fails with E_LOCATOR_LOCATE, of  *)
(* a registered one it returns the registered instance                      *)
LocateOutcome ==
  LocateStep =>
    IF Has(registry, loc'.name)
    THEN loc'.pc = "ok" /\ loc'.result = registry[loc'.name]
    ELSE loc'.pc = "failed" /\ loc'.error = "E_LOCATOR_LOCATE"

(* a lazyload that succeeds returns the instance registered under its name *)
LazyReturnsRegistered ==
  lazy.pc = "ok" => Has(registry, lazy.name) /\ registry[lazy.name] = lazy.result

(* lazyload of a registered name returns its instance at once: no path is   *)
(* resolved, whatever the path of the call                                  *)
LazyCached ==
  (LazyStep /\ Has(registry, lazy'.name)) =>
    /\ lazy'.pc = "ok"
    /\ lazy'.result = registry[lazy'.name]
    /\ UNCHANGED <<registry, order, priority>>

(* the instance under a name stays the same one while the name is           *)
(* registered, and only delete removes a name                               *)
InstanceKept ==
  \A n \in DOMAIN registry :
    /\ Has(registry', n) => registry'[n] = registry[n]
    /\ del'.pc = del.pc => Has(registry', n)

(* C12: locate of a name that is not registered fails with E_LOCATOR_LOCATE; *)
(* once lazyload(name, path) has registered an instance, every locate(name) *)
(* and every lazyload(name, anyPath) returns that instance, and the         *)
(* lazyload resolves no path, for as long as the name is not deleted.       *)
C12_LazyloadCaches ==
  /\ []LazyReturnsRegistered
  /\ [][LocateOutcome /\ LazyCached /\ InstanceKept]_vars

(* a second lazyload, of a path that resolves to another instance, has      *)
(* returned the instance of the first                                       *)
C12_Witness ==
  /\ calls.lazy >= 2
  /\ lazy.pc = "ok"
  /\ lazy.path \in InstancePaths
  /\ lazy.result # lazy.path
  /\ registry[lazy.name] = lazy.result

(* what a path that does not resolve fails with *)
LazyCauseOf(path) ==
  IF path = EmptyDir THEN "E_LOCATOR_SERVICE_UNRESOLVABLE"
  ELSE IF path = NoExport THEN "E_LOCATOR_UNKNOWN_LOCATOR"
  ELSE "E_LOCATOR_LOCATE"

(* the resolution awaited by lazyload is about to fail *)
ResolutionFails ==
  /\ lazy.pc = "resolve"
  /\ \/ lazy.path \in {EmptyDir, NoExport}
     \/ lazy.path = LocatorFile /\ ~Has(registry, LocatedName)

(* C13: when the resolution awaited by lazyload(name, path) fails, whatever *)
(* the failure, lazyload fails with E_LOCATOR_LAZYLOAD whose cause is that  *)
(* failure, the registry and the priority relation are as they were, name   *)
(* is not registered and a locate(name) that follows fails with             *)
(* E_LOCATOR_LOCATE.                                                        *)
C13_LazyloadFailureChangesNothing ==
  /\ [](lazy.pc = "failed" =>
          /\ lazy.error = "E_LOCATOR_LAZYLOAD"
          /\ lazy.cause = LazyCauseOf(lazy.path)
          /\ ~Has(registry, lazy.name)
          /\ Located(registry, lazy.name).error = "E_LOCATOR_LOCATE")
  /\ [][ResolutionFails =>
          /\ lazy'.pc = "failed"
          /\ UNCHANGED <<registry, order, priority>>]_vars

(* a lazyload of a directory with nothing to resolve has failed, with       *)
(* names registered and uses recorded                                       *)
C13_Witness ==
  /\ lazy.pc = "failed"
  /\ lazy.cause = "E_LOCATOR_SERVICE_UNRESOLVABLE"
  /\ registry # <<>>
  /\ priority # <<>>

(* C14: locate(name) returns the instance registered under name, or fails   *)
(* with E_LOCATOR_LOCATE when there is none; either way no call to load is  *)
(* started and the registry, its order and the priority relation stay as    *)
(* they were.                                                               *)
C14_LocateOnlyReads ==
  [][LocateStep =>
       /\ LocateOutcome
       /\ UNCHANGED <<registry, order, priority, eager, lazy, del, dest,
                      expand, calls, overlap>>]_vars

(* a name with recorded uses has been located *)
C14_Witness ==
  /\ loc.pc = "ok"
  /\ Has(priority, loc.name)
  /\ loc.result = registry[loc.name]

----------------------------------------------------------------------------
(* Properties of the priority relation *)

(* every recorded entry is of a registered name and lists a use or more *)
EntriesOfRegistered ==
  \A n \in DOMAIN priority : Has(registry, n) /\ Len(priority[n]) > 0

(* the declaration whose module the eagerload in flight has awaited *)
Awaited == eager.batch[eager.cfgs[eager.idx]]

(* a name that is registered by a step gets an entry exactly when eagerload *)
(* registers it from a declaration that lists uses, and the entry is that   *)
(* list; the entry of a name that stays registered stays as it is           *)
EntryFromEagerUses ==
  \A n \in Names :
    /\ (~Has(registry, n) /\ Has(registry', n)) =>
         /\ Has(priority', n) <=>
              /\ eager.pc = "resolve"
              /\ Awaited.name = n
              /\ Awaited.uses # <<>>
         /\ Has(priority', n) => priority'[n] = Awaited.uses
    /\ (Has(registry, n) /\ Has(registry', n)) =>
         /\ Has(priority', n) <=> Has(priority, n)
         /\ Has(priority, n) => priority'[n] = priority[n]

(* C15: the priority relation has an entry for a name exactly when the name *)
(* is registered and was registered by eagerload from a declaration that    *)
(* lists uses; there is no entry for a name that is not registered and no   *)
(* entry with an empty list.                                                *)
C15_EntryIffEagerLoadedWithUses ==
  /\ []EntriesOfRegistered
  /\ [][EntryFromEagerUses]_vars

(* after an eagerload and a lazyload two names are registered and one of    *)
(* them has an entry                                                        *)
C15_Witness ==
  /\ Quiet
  /\ calls.eager = 1
  /\ calls.lazy = 1
  /\ Cardinality(DOMAIN registry) = 2
  /\ Cardinality(DOMAIN priority) = 1

(* a delete call has just been made *)
DeleteStep == del.pc = "idle" /\ del'.pc = "done"

(* the registry, its order and the priority relation after the step *)
WorldAfter ==
  [registry |-> registry', order |-> order', priority |-> priority',
   thrown |-> ""]

(* delete(A) fails with E_LOCATOR_DELETE and changes nothing while a name   *)
(* with A in its recorded uses is registered, and the entry of a name stays *)
(* for as long as the name is registered                                    *)
GuardedWhileRegistered ==
  /\ (DeleteStep /\ UsedBy(priority, del'.name) # {}) =>
       /\ del'.error = "E_LOCATOR_DELETE"
       /\ UNCHANGED <<registry, order, priority>>
  /\ \A B \in DOMAIN priority :
       Has(registry', B) => Has(priority', B) /\ priority'[B] = priority[B]

(* delete of a name that no recorded uses list succeeds and unregisters it *)
UnguardedDeleted ==
  (DeleteStep /\ UsedBy(priority, del'.name) = {}) =>
    /\ del'.error = ""
    /\ ~Has(registry', del'.name)

(* delete(B) has succeeded: a delete(A) that follows succeeds, for every A  *)
(* of the uses that were recorded for B                                     *)
ReleasedByDelete ==
  (DeleteStep /\ del'.error = "") =>
    \A A \in Range(del'.uses) :
      LET w == GuardedDelete(WorldAfter, A)
      IN w.thrown = "" /\ ~Has(w.registry, A)

(* the same, for every A that B was the only one to list *)
ReleasedByLastDelete ==
  (DeleteStep /\ del'.error = "") =>
    \A A \in Range(del'.uses) :
      UsedBy(priority, A) = {del'.name} =>
        LET w == GuardedDelete(WorldAfter, A)
        IN w.thrown = "" /\ ~Has(w.registry, A)

(* C16 as it is stated: with B eager-loaded with A in its uses, delete(A)   *)
(* fails with E_LOCATOR_DELETE while B is registered, and once delete(B)    *)
(* has succeeded delete(A) succeeds and A is no longer registered.          *)
C16_DeleteOfDependentReleases ==
  [][GuardedWhileRegistered /\ UnguardedDeleted /\ ReleasedByDelete]_vars

(* C16, amended: with B eager-loaded with A in its uses, delete(A) fails    *)
(* with E_LOCATOR_DELETE while B is registered; once delete(B) has          *)
(* succeeded, and no other registered name has A in its recorded uses,      *)
(* delete(A) succeeds and A is no longer registered.                        *)
C16_DeleteOfLastDependentReleases ==
  [][GuardedWhileRegistered /\ UnguardedDeleted /\ ReleasedByLastDelete]_vars

(* delete(B) has succeeded and has removed the uses recorded for B: the     *)
(* name they list is registered and no recorded uses list it any more       *)
C16_Witness ==
  /\ del.pc = "done"
  /\ del.error = ""
  /\ del.uses # <<>>
  /\ \A A \in Range(del.uses) : Has(registry, A) /\ UsedBy(priority, A) = {}

----------------------------------------------------------------------------
(* Properties of a locator that looks up a name of its batch *)

(* the batch b declares a locator file, with no uses, and after it the name *)
(* the locator looks up, with a module that resolves; neither name is       *)
(* registered when eagerload is called                                      *)
LooksUpLaterName(b, names0) ==
  /\ Len(b) = 2
  /\ b[1].path = LocatorFile
  /\ b[1].uses = <<>>
  /\ b[1].name # LocatedName
  /\ b[2].name = LocatedName
  /\ b[2].path \in InstancePaths
  /\ Range(b[2].uses) \subseteq names0
  /\ b[1].name \notin names0
  /\ LocatedName \notin names0

(* C17: a locator that looks up a name declared later in its batch fails in *)
(* the first pass with an error that is not fatal; its declaration is       *)
(* queued and resolved in the second pass, after the name it looks up, so   *)
(* eagerload succeeds with both names registered and the service of the     *)
(* locator is the instance registered under the name it looked up.          *)
C17_FailedLookupIsRetried ==
  /\ (eager.pc \in {"resolve", "ok", "failed"}
        /\ LooksUpLaterName(eager.batch, eager.names0)) =>
       /\ eager.pc # "failed"
       /\ eager.attempt = 2 => eager.cfgs = <<1>>
  /\ (EagerDone /\ LooksUpLaterName(eager.batch, eager.names0)) =>
       /\ eager.pc = "ok"
       /\ eager.loaded = <<2, 1>>
       /\ eager.passes = <<1, 2>>
       /\ Has(registry, LocatedName)
       /\ Has(registry, eager.batch[1].name)
       /\ registry[LocatedName] = eager.batch[2].path
       /\ registry[eager.batch[1].name] = registry[LocatedName]

(* the eagerload of such a batch has succeeded *)
C17_Witness ==
  /\ eager.pc = "ok"
  /\ LooksUpLaterName(eager.batch, eager.names0)
  /\ eager.passes = <<1, 2>>
  /\ registry[eager.batch[1].name] = registry[LocatedName]

----------------------------------------------------------------------------
(* eagerload of service maps with wildcards, over the files of the          *)
(* application                                                              *)

MaxEntries == 2       \* entries of a service map
MaxExpandCalls == 2   \* eagerload calls in one behaviour of SpecExpand

WildNames == {<<"s", "v", "c">>, <<"s", "v", "c", "/", "*">>, <<"m", "o", "d", "/", "*">>, <<"s", "v", "c", "/", "*", "/", "i", "n", "/", "*">>}

WildPaths ==
  {<<".", "/", "s", "e", "r", "v", "i", "c", "e", "s", "/", "a", ".", "j", "s">>, <<".", "/", "s", "e", "r", "v", "i", "c", "e", "s", "/", "*", ".", "j", "s">>, <<".", "/", "m", "o", "d", "s", "/", "*", "/", "i", "n", "d", "e", "x", ".", "j", "s">>, <<".", "/", "m", "o", "d", "s", "/", "*">>,
   <<".", "/", "d", "o", "c", "s", "/", "*", ".", "j", "s">>, <<".", "/", "e", "m", "p", "t", "y", "/", "*", ".", "j", "s">>, <<".", "/", "n", "o", "n", "e", "/", "*", ".", "j", "s">>, <<".", "/", "s", "e", "r", "v", "i", "c", "e", "s", "/", "a", ".", "j", "s", "/", "*", ".", "j", "s">>}

(* the declarations #expandServiceWildcards is applied to *)
ExpandConfs == [name : WildNames, path : WildPaths, uses : {<<>>}]

(* the entries of a service map: a name with a path, with a number (not 0), *)
(* with null, or with an object of a path and the uses of a name            *)
MapEntries ==
  {[name |-> n, conf |-> [type |-> "String", path |-> p]] :
     n \in WildNames, p \in WildPaths}
  \cup
  {[name |-> <<"s", "v", "c">>, conf |-> [type |-> "Number", value |-> TRUE]],
   [name |-> <<"s", "v", "c">>, conf |-> [type |-> "Null"]]}
  \cup
  {[name |-> <<"m", "o", "d", "/", "*">>,
    conf |-> [type |-> "Object", hasPath |-> TRUE, path |-> <<".", "/", "m", "o", "d", "s", "/", "*", "/", "i", "n", "d", "e", "x", ".", "j", "s">>,
              uses |-> <<u>>]] : u \in {<<"s", "v", "c", "/", "a">>, <<"s", "v", "c">>}}

(* the service maps: an object has one entry for a name *)
ServiceMaps ==
  {m \in UNION {[1..k -> MapEntries] : k \in 1..MaxEntries} :
     \A i, j \in 1..Len(m) : m[i].name = m[j].name => i = j}

(* the strings eagerload is given, alone or in an array *)
ServiceStrings ==
  {<<".", "/", "s", "e", "r", "v", "i", "c", "e", "s", "/", "a", ".", "j", "s">>, <<".", "/", "s", "e", "r", "v", "i", "c", "e", "s", "/", "*", ".", "j", "s">>, <<".", "/", "e", "m", "p", "t", "y", "/", "*", ".", "j", "s">>}

(* the values eagerload is given that are not objects: a string, an array   *)
(* of strings, a number, a boolean, null, undefined and a function          *)
ServiceValues ==
  {[type |-> "String", value |-> s] : s \in ServiceStrings}
  \cup
  {[type |-> "Array", items |-> a] :
     a \in UNION {[1..k -> ServiceStrings] : k \in 0..MaxEntries}}
  \cup
  {[type |-> t] : t \in {"Number", "Boolean", "Null", "Undefined", "Function"}}

NextExpand ==
  \/ Quiet /\ \E conf \in ExpandConfs : ExpandCall(conf)
  \/ /\ Quiet
     /\ calls.eager < MaxExpandCalls
     /\ \E serviceMap \in ServiceMaps : EagerloadMap(serviceMap)
  \/ /\ Quiet
     /\ calls.eager < MaxExpandCalls
     /\ \E serviceMap \in ServiceValues : Eagerload(serviceMap)
  \/ MapExpanded
  \/ EagerResolved
  \/ Return

SpecExpand == Init /\ [][NextExpand]_vars

----------------------------------------------------------------------------
(* Properties of the expansion of a service map *)

(* how many wildcard markers a string has *)
Wildcards(str) == Cardinality({i \in 1..Len(str) : str[i] = Star})

(* the declaration of an entry, its path normalised *)
Declared(entry) ==
  LET c == NormalizeServiceConf(entry.name, entry.conf)
  IN [name |-> c.name, path |-> NormalizeServicePath(c.name, c.path),
      uses |-> c.uses]

(* the value of the entry is one a declaration can be made of *)
Declares(entry) ==
  /\ TruthyConf(entry.conf)
  /\ NormalizeServiceConf(entry.name, entry.conf).thrown = ""

(* the entry has more, or fewer, wildcard markers in its name than in its   *)
(* path                                                                     *)
Mismatched(entry) ==
  /\ Declares(entry)
  /\ Wildcards(Declared(entry).name) # Wildcards(Declared(entry).path)

(* the entry has wildcards, as many in its name as in its path, its         *)
(* directories are read and nothing in them makes a declaration             *)
Unmatched(entry) ==
  /\ Declares(entry)
  /\ Wildcards(Declared(entry).name) >= 1
  /\ Wildcards(Declared(entry).name) = Wildcards(Declared(entry).path)
  /\ LET d == Declared(entry)
         y == ExpandServiceWildcardsIterater(NoConfigs, d.uses,
                Split(d.name, Star)[1], Split(d.path, Star)[1],
                Split(d.name, Star), Split(d.path, Star), 1)
     IN y.thrown = "" /\ y.configs = <<>>

(* the entry alone expands to a declaration or more *)
Matched(entry) ==
  /\ Declares(entry)
  /\ LET y == ExpandServiceWildcards(NoConfigs, Declared(entry))
     IN y.thrown = "" /\ Len(y.configs) >= 1

(* no entry before place k is of a value no declaration can be made of:     *)
(* such an entry fails first, with E_LOCATOR_INVALID_SERVICE_CONFIG         *)
DeclaresBefore(m, k) ==
  \A i \in 1..(k - 1) : TruthyConf(m[i].conf) => Declares(m[i])

(* the expansion of the service map of the eagerload call is done *)
ExpansionStep == expand.pc = "expanding" /\ expand'.pc = "expanded"

(* the eagerload call has failed and nothing has changed: no module was     *)
(* loaded, and the registry, its order and the priority relation are as     *)
(* they were                                                                *)
FailedUnchanged ==
  /\ eager'.pc = "failed"
  /\ eager'.loaded = <<>>
  /\ UNCHANGED <<registry, order, priority>>

(* C18: when an entry of the service map has a different number of wildcard *)
(* markers in its name than in its path, eagerload fails, with              *)
(* E_LOCATOR_INVALID_PATH when every entry before it is of a supported      *)
(* value, and the registry and the priority relation are unchanged; no      *)
(* declaration is registered, of the entries before the mismatched one also. *)
C18_MismatchedWildcardsRegisterNothing ==
  [][ExpansionStep =>
       \A k \in 1..Len(expand.map) :
         Mismatched(expand.map[k]) =>
           /\ FailedUnchanged
           /\ DeclaresBefore(expand.map, k) =>
                eager'.error = "E_LOCATOR_INVALID_PATH"]_vars

(* an eagerload has failed on a mismatched entry listed after an entry that *)
(* expands, with names registered and uses recorded by an earlier call      *)
C18_Witness ==
  /\ eager.pc = "failed"
  /\ eager.error = "E_LOCATOR_INVALID_PATH"
  /\ expand.at = "wildcards"
  /\ Len(expand.map) = 2
  /\ Matched(expand.map[1])
  /\ Mismatched(expand.map[2])
  /\ registry # <<>>
  /\ priority # <<>>

(* C19: when an entry with wildcards expands to no declaration, eagerload   *)
(* fails, with E_LOCATOR_INVALID_PATH when every entry before it is of a    *)
(* supported value, and registers nothing, whether or not other entries of  *)
(* the service map expand to declarations.                                  *)
C19_UnmatchedWildcardsRegisterNothing ==
  [][ExpansionStep =>
       \A k \in 1..Len(expand.map) :
         Unmatched(expand.map[k]) =>
           /\ FailedUnchanged
           /\ DeclaresBefore(expand.map, k) =>
                eager'.error = "E_LOCATOR_INVALID_PATH"]_vars

(* an eagerload has failed on an entry that nothing matches, listed after   *)
(* an entry that expands to two declarations                                *)
C19_Witness ==
  /\ eager.pc = "failed"
  /\ eager.error = "E_LOCATOR_INVALID_PATH"
  /\ expand.at = "nomatch"
  /\ Len(expand.map) = 2
  /\ Len(ExpandServiceWildcards(NoConfigs, Declared(expand.map[1])).configs) = 2
  /\ Unmatched(expand.map[2])

(* the declaration of C20, as #expandServiceWildcards is given it *)
ServicesByWildcard ==
  [name |-> <<"s", "v", "c", "/", "*">>, path |-> <<".", "/", "s", "e", "r", "v", "i", "c", "e", "s", "/", "*", ".", "j", "s">>, uses |-> <<>>]

(* C20: the declaration of name svc/* and path ./services/*.js, over a      *)
(* directory of the files a.js, b.js and b.test.js, expands to the two      *)
(* declarations svc/a of ./services/a.js and svc/b of ./services/b.js and   *)
(* to no other: the file name less the ending .js is put for the wildcard   *)
(* of the name, and the test file gives no declaration and no error.        *)
C20_ExpandsToServicesAandB ==
  (expand.pc = "done" /\ expand.conf = ServicesByWildcard) =>
    /\ expand.thrown = ""
    /\ Len(expand.configs) = 2
    /\ Range(expand.configs) =
         {[name |-> <<"s", "v", "c", "/", "a">>, path |-> <<".", "/", "s", "e", "r", "v", "i", "c", "e", "s", "/", "a", ".", "j", "s">>, uses |-> <<>>],
          [name |-> <<"s", "v", "c", "/", "b">>, path |-> <<".", "/", "s", "e", "r", "v", "i", "c", "e", "s", "/", "b", ".", "j", "s">>, uses |-> <<>>]}

(* that declaration has been expanded, over that directory *)
C20_Witness ==
  /\ expand.pc = "done"
  /\ expand.conf = ServicesByWildcard
  /\ Len(expand.configs) = 2
  /\ ReadDirentsByPath(<<".", "/", "s", "e", "r", "v", "i", "c", "e", "s", "/">>).dirents =
       <<File(<<"a", ".", "j", "s">>), File(<<"b", ".", "j", "s">>), File(<<"b", ".", "t", "e", "s", "t", ".", "j", "s">>)>>

----------------------------------------------------------------------------
(* The file-acceptance predicate of the wildcard expansion                  *)

(* the file name has the ending of a javascript module *)
ModuleEnding(filename) ==
  \E ending \in FileEndings : EndsWith(filename, <<".">> \o ending)

(* the file name carries a marker of a file that is not for production *)
NonProduction(filename) ==
  \E ending \in FileEndings, type \in FileTypes :
    EndsWith(filename, <<".">> \o type \o <<".">> \o ending)

(* the predicate as C21 states it: the trailing segment alone decides when  *)
(* there is one                                                             *)
AcceptedBySegment(filename, expectation) ==
  IF expectation # <<>>
  THEN EndsWith(filename, expectation)
  ELSE ModuleEnding(filename) /\ ~NonProduction(filename)

(* a declaration of one wildcard in its name and one in its path has been   *)
(* expanded and the directory before the wildcard was read                  *)
ExpandedOneWildcard ==
  /\ expand.pc = "done"
  /\ Wildcards(expand.conf.name) = 1
  /\ Wildcards(expand.conf.path) = 1
  /\ ReadDirentsByPath(Split(expand.conf.path, Star)[1]).thrown = ""

(* the file of that directory has given a declaration *)
DeclaredFile(filename) ==
  \E i \in 1..Len(expand.configs) :
    expand.configs[i].path = Split(expand.conf.path, Star)[1] \o filename

(* the files of that directory *)
FilesRead ==
  LET dirents == ReadDirentsByPath(Split(expand.conf.path, Star)[1]).dirents
  IN {dirents[k].name : k \in {j \in 1..Len(dirents) : dirents[j].kind = "file"}}

(* C21: a file at the final depth gives a declaration if and only if, when  *)
(* the path has a trailing segment after the wildcard, its name ends with   *)
(* that segment, and, when it has none, its name ends with .js, .mjs or     *)
(* .cjs and carries no non-production marker before that ending.            *)
C21_AcceptedIffEndsWithSegment ==
  ExpandedOneWildcard =>
    \A filename \in FilesRead :
      DeclaredFile(filename)
        <=> AcceptedBySegment(filename, Split(expand.conf.path, Star)[2])

----------------------------------------------------------------------------
(* The value eagerload is given                                             *)

(* eagerload is called *)
EagerloadStep == eager.pc = "idle" /\ eager'.pc # "idle"

(* the mapping C22 says the value is treated as *)
TreatedAs(v) ==
  IF v.type = "String" THEN {[name |-> v.value, conf |-> True]}
  ELSE IF v.type = "Array"
  THEN {[name |-> v.items[k], conf |-> True] : k \in 1..Len(v.items)}
  ELSE {v.map[k] : k \in 1..Len(v.map)}

(* the entries of the service map that is expanded are those of the mapping *)
(* m, one entry for a name                                                  *)
MapIs(map, m) ==
  /\ Range(map) = m
  /\ \A i, j \in 1..Len(map) : map[i].name = map[j].name => i = j

(* C22: eagerload of a string s goes on with the mapping of s to true, of   *)
(* an array with the mapping of each of its elements to true, of an object  *)
(* with the object as it is; eagerload of a number, a boolean, null,        *)
(* undefined or a function fails with E_LOCATOR_INVALID_SERVICE_MAP, with a *)
(* cause that names the type of the value, and the registry, its order and  *)
(* the priority relation are unchanged.                                     *)
C22_ServiceMapNormalised ==
  [][EagerloadStep =>
       LET v == expand'.input
       IN /\ v.type \in {"String", "Array", "Object"} =>
               /\ eager'.pc = "expand"
               /\ expand'.pc = "expanding"
               /\ MapIs(expand'.map, TreatedAs(v))
               /\ v.type = "Object" => expand'.map = v.map
          /\ v.type \in {"Number", "Boolean", "Null", "Undefined", "Function"} =>
               /\ eager'.pc = "failed"
               /\ eager'.error = "E_LOCATOR_INVALID_SERVICE_MAP"
               /\ eager'.cause = <<"Invalid service map type", ServiceMapType(v)>>
               /\ eager'.loaded = <<>>
               /\ UNCHANGED <<registry, order, priority>>]_vars

(* eagerload of null has failed, after an eagerload of a string or of an    *)
(* array has registered the service of its path, under that path as name    *)
C22_Witness ==
  /\ eager.pc = "failed"
  /\ eager.error = "E_LOCATOR_INVALID_SERVICE_MAP"
  /\ expand.input.type = "Null"
  /\ eager.cause = <<"Invalid service map type", "[object Null]">>
  /\ DOMAIN registry = {<<".", "/", "s", "e", "r", "v", "i", "c", "e", "s", "/", "a", ".", "j", "s">>}

----------------------------------------------------------------------------
(* The value of an entry of the service map                                 *)

(* the value of the entry is not a boolean, a string, an array or an object *)
Unsupported(entry) ==
  entry.conf.type \notin {"Boolean", "String", "Array", "Object"}

(* the entries before place k are expanded with no error *)
ExpandsBefore(m, k) == ExpandServiceMap(SubSeq(m, 1, k - 1)).thrown = ""

(* C23: when an entry of the service map has a value that is not a boolean, *)
(* a string, an array or an object (a number, null) and the entries before  *)
(* it are expanded with no error, eagerload fails with                      *)
(* E_LOCATOR_INVALID_SERVICE_CONFIG; of the value true the declaration has  *)
(* path = name and no uses, of a string path = the string and no uses, of   *)
(* an array path = name and uses = the array, of an object its path, or the *)
(* name, and its uses, or none.                                             *)
C23_UnsupportedValueFails ==
  [][ExpansionStep =>
       \A k \in 1..Len(expand.map) :
         LET entry == expand.map[k]
             conf  == NormalizeServiceConf(entry.name, entry.conf)
         IN /\ (Unsupported(entry) /\ ExpandsBefore(expand.map, k)) =>
                 /\ eager'.pc = "failed"
                 /\ eager'.error = "E_LOCATOR_INVALID_SERVICE_CONFIG"
            /\ (entry.conf.type = "Boolean" /\ entry.conf.value) =>
                 conf = [name |-> entry.name, path |-> entry.name,
                         uses |-> <<>>, thrown |-> ""]
            /\ entry.conf.type = "String" =>
                 conf = [name |-> entry.name, path |-> entry.conf.path,
                         uses |-> <<>>, thrown |-> ""]
            /\ entry.conf.type = "Array" =>
                 conf = [name |-> entry.name, path |-> entry.name,
                         uses |-> entry.conf.uses, thrown |-> ""]
            /\ entry.conf.type = "Object" =>
                 conf = [name |-> entry.name,
                         path |-> IF entry.conf.hasPath THEN entry.conf.path
                                  ELSE entry.name,
                         uses |-> entry.conf.uses, thrown |-> ""]]_vars

----------------------------------------------------------------------------
(* The order of the exports in #resolveLocator                              *)

(* lazyload of a module of exports has settled *)
SurfaceResolved ==
  /\ lazy.pc \in {"ok", "failed"}
  /\ lazy.path \in SurfacePaths

(* the awaited resolution of a module of exports is done *)
SurfaceStep ==
  /\ lazy.pc = "resolve"
  /\ lazy'.pc # "resolve"
  /\ lazy.path \in SurfacePaths

(* it has failed with E_LOCATOR_UNKNOWN_LOCATOR, wrapped by lazyload *)
UnknownLocator ==
  /\ lazy.pc = "failed"
  /\ lazy.error = "E_LOCATOR_LAZYLOAD"
  /\ lazy.cause = "E_LOCATOR_UNKNOWN_LOCATOR"
  /\ ~Has(registry, lazy.name)

(* it has registered and returned that instance *)
ResolvedTo(svc) ==
  /\ lazy.pc = "ok"
  /\ lazy.result = svc
  /\ Has(registry, lazy.name)
  /\ registry[lazy.name] = svc

(* C24: the exports are looked at in the order locate, Locator, default and *)
(* the first that applies decides: a locate export that is a plain function *)
(* gives the instance, whatever Locator and default are; a locate export    *)
(* that is a class fails with E_LOCATOR_UNKNOWN_LOCATOR; with no callable   *)
(* locate export, a Locator export that has no callable locate and is not a *)
(* class of no constructor argument with a locate on its instances fails    *)
(* with E_LOCATOR_UNKNOWN_LOCATOR, even when there is a default export;     *)
(* with neither, a default export with no callable locate is the instance;  *)
(* with none of the three it fails with E_LOCATOR_UNKNOWN_LOCATOR.          *)
C24_FirstApplicableExportDecides ==
  [][SurfaceStep =>
       LET m == Imported(lazy.path)
           callable == m.locate \in {"function", "class"}
       IN /\ m.locate = "function" => ResolvedTo(Made(1, lazy.path))'
          /\ m.locate = "class" => UnknownLocator'
          /\ (~callable /\ m.Locator \in {"static", "class0"}) =>
               ResolvedTo(Made(2, lazy.path))'
          /\ (~callable /\ m.Locator \in {"class1", "object"}) =>
               UnknownLocator'
          /\ (~callable /\ m.Locator = "none" /\ m.default = "locator") =>
               ResolvedTo(Made(3, lazy.path))'
          /\ (~callable /\ m.Locator = "none" /\ m.default = "instance") =>
               ResolvedTo(lazy.path)'
          /\ (~callable /\ m.Locator = "none" /\ m.default = "none") =>
               UnknownLocator']_vars

(* lazyload has failed on a module whose Locator export is an object with   *)
(* no locate and whose default export is an instance                        *)
C24_Witness ==
  /\ SurfaceResolved
  /\ UnknownLocator
  /\ Imported(lazy.path) =
       [locate |-> "value", Locator |-> "object", default |-> "instance"]

----------------------------------------------------------------------------
(* Eagerload of names that are registered                                   *)

(* the expansion of the eagerload call is done, with no error, and the      *)
(* first pass over its declarations has run to its first await or its end   *)
FirstPassStep ==
  /\ eager.pc = "expand"
  /\ eager'.pc # "expand"
  /\ expand'.thrown = ""

(* every declaration of the batch has a registered name *)
AllNamesRegistered(batch, reg) ==
  \A i \in 1..Len(batch) : Has(reg, batch[i].name)

(* C25: an eagerload whose declarations all have registered names succeeds  *)
(* in its first pass with no module loaded, and the registry (each name     *)
(* with the instance it had), its order and the priority relation are       *)
(* unchanged; an eagerload that has succeeded leaves every name of its      *)
(* declarations registered, so the same eagerload after it is such a call.  *)
C25_EagerloadOfRegisteredNames ==
  [][/\ (FirstPassStep /\ AllNamesRegistered(eager'.batch, registry)) =>
          /\ eager'.pc = "ok"
          /\ eager'.attempt = 1
          /\ eager'.loaded = <<>>
          /\ UNCHANGED <<registry, order, priority>>
     /\ eager'.pc = "ok" => AllNamesRegistered(eager'.batch, registry')]_vars

(* a second eagerload of two declarations, one with uses, has succeeded     *)
(* with nothing loaded                                                      *)
C25_Witness ==
  /\ eager.pc = "ok"
  /\ calls.eager = 2
  /\ Len(eager.batch) = 2
  /\ eager.loaded = <<>>
  /\ AllNamesRegistered(eager.batch, registry)
  /\ \E i \in 1..2 : eager.batch[i].uses # <<>> /\ Has(priority, eager.batch[i].name)

----------------------------------------------------------------------------
(* The rounds of destroy()                                                  *)

(* a round of destroy() starts: its entries are filtered and its loop runs  *)
(* to await Promise.all                                                     *)
RoundStarts == dest'.round = dest.round + 1

(* the names of the round whose destroy operation is to be invoked: not     *)
(* used by a recorded entry, not disabled, with a destroy function          *)
Eligible(ord, prio, reg, disabled) ==
  {n \in Range(Filtered(ord, prio)) :
     n \notin disabled /\ DestroyKind(reg[n]) # "none"}

(* the pending invocation of name settles *)
SettleOf(st, name) ==
  Settled(st, name,
    IF DestroyKind(st.d.entries[name]) = "returns" THEN "none" ELSE "falsy")

(* what the settlements of a round leave: the registry, its order and the   *)
(* priority relation, the reasons kept, and the errors collected from them  *)
LeftBy(st) ==
  LET Failed(n) == n \in DOMAIN st.d.reason /\ Truthy(st.d.reason[n])
  IN [w |-> st.w, reason |-> st.d.reason, pending |-> st.d.pending,
      failed |-> st.d.failed, thrown |-> st.d.thrown,
      rejected |-> st.d.rejected \o SelectSeq(st.d.invoked, Failed)]

(* two pending invocations leave the same whichever settles first *)
SettleInEitherOrder ==
  \A a, b \in dest.pending :
    LET st == [w |-> World, d |-> dest]
    IN LeftBy(SettleOf(SettleOf(st, a), b)) = LeftBy(SettleOf(SettleOf(st, b), a))

----------------------------------------------------------------------------
(* The invocations of one destroy()                                         *)

(* how many times the destroy operation of name was invoked *)
Invocations(name) ==
  Cardinality({k \in 1..Len(dest.inv) : dest.inv[k].name = name})

(* destroy() is over: it has resolved, or failed with E_LOCATOR_DESTROY *)
DestroyOver ==
  /\ dest.pc \in {"ok", "failed"}
  /\ dest.error \in {"", "E_LOCATOR_DESTROY"}

(* the service name had when destroy() was called has a destroy function *)
HadDestroy(name) == DestroyKind(dest.entries0[name]) # "none"

(* C27: the destroy operation of no service is invoked twice by one         *)
(* destroy(); when destroy() is over, the destroy operation of every        *)
(* service that was registered with a destroy function and is not disabled  *)
(* was invoked once, that of a service that others use also, and a service  *)
(* with no destroy function is removed with no invocation.                  *)
C27_EveryDestroyInvokedOnce ==
  /\ \A n \in dest.names0 : Invocations(n) <= 1
  /\ DestroyOver =>
       \A n \in dest.names0 :
         /\ (HadDestroy(n) /\ n \notin dest.disabled) => Invocations(n) = 1
         /\ ~HadDestroy(n) => (Invocations(n) = 0 /\ ~Has(registry, n))

(* destroy() is over for a service with no destroy function and for a       *)
(* dependent and its dependency, whose destroy operations were both invoked *)
C27_Witness ==
  /\ DestroyOver
  /\ dest.disabled = {}
  /\ \E n \in dest.names0 : ~HadDestroy(n)
  /\ \E p \in DestroyPairs : Invocations(p[1]) = 1 /\ Invocations(p[2]) = 1

----------------------------------------------------------------------------
(* The services whose destroy is disabled                                   *)

(* C28: the destroy operation of a service whose config entry               *)
(* destroy/<name> is false is not invoked by destroy() and no               *)
(* E_LOCATOR_DESTROY_SERVICE error is collected for it; when destroy() is   *)
(* over the service is in neither the registry nor the priority relation;   *)
(* with no entry false (the lookup falls back to true) every service with   *)
(* a destroy function is invoked.                                           *)
C28_DisabledIsRemovedNotInvoked ==
  /\ \A n \in dest.disabled :
       /\ Invocations(n) = 0
       /\ n \notin dest.failed
       /\ n \notin Range(dest.rejected)
       /\ DestroyOver => (~Has(registry, n) /\ ~Has(priority, n))
  /\ (DestroyOver /\ dest.disabled = {}) =>
       \A n \in dest.names0 : HadDestroy(n) => Invocations(n) = 1

(* destroy() has resolved with a disabled service whose destroy function    *)
(* throws, which had uses recorded, and an enabled one that was invoked     *)
C28_Witness ==
  /\ dest.pc = "ok"
  /\ \E n \in dest.disabled :
       /\ DestroyKind(dest.entries0[n]) = "throws"
       /\ Has(dest.priority0, n)
  /\ \E n \in dest.names0 \ dest.disabled : Invocations(n) = 1

----------------------------------------------------------------------------
(* The locator called as a function                                         *)

(* what a lookup gives: the instance, or the error *)
OutcomeOf(l) == [pc |-> l.pc, result |-> l.result, error |-> l.error]

(* what the access to the registry that the locator file is handed gives    *)
(* for the name it looks up                                                 *)
HandedOutcome(reg) ==
  LET r == ResolveLocator(LocatorFile, reg)
  IN [pc |-> IF r.type = "value" THEN "ok" ELSE "failed", result |-> r.svc,
      error |-> r.code]

(* C29: in every state of the registry and for every name, the locator      *)
(* called as a function with the name gives what locate(name) gives, the    *)
(* same instance or E_LOCATOR_LOCATE; so does the call that has been made,  *)
(* and so does the registry access that the locate operation of a locator   *)
(* file is handed.                                                          *)
C29_CalledAsFunctionIsLocate ==
  /\ \A name \in Names :
       OutcomeOf(Apply(registry, <<name>>)) = OutcomeOf(Located(registry, name))
  /\ (loc.pc \in {"ok", "failed"} /\ loc.call = "apply") =>
       OutcomeOf(loc) = OutcomeOf(Located(registry, loc.name))
  /\ HandedOutcome(registry) = OutcomeOf(Located(registry, LocatedName))

(* the locator was called as a function with the name of a registered       *)
(* service, and another name is not registered                              *)
C29_Witness ==
  /\ loc.pc = "ok"
  /\ loc.call = "apply"
  /\ Has(registry, loc.name)
  /\ loc.result = registry[loc.name]
  /\ \E name \in Names : Apply(registry, <<name>>).error = "E_LOCATOR_LOCATE"

----------------------------------------------------------------------------
(* Two lazyload calls of one name that overlap                              *)

(* the calls of the two callers were for one name that was not registered,  *)
(* the second was made while the first was awaiting its resolution, and     *)
(* both have returned                                                       *)
BothReturned ==
  /\ \A i \in Callers : overlap[i].pc = "ok" /\ overlap[i].met
  /\ overlap[1].name = overlap[2].name

(* C30: when two lazyload calls of one unregistered name overlap, the path  *)
(* is resolved once, both calls return the same instance, and that instance *)
(* is the one registered under the name, which locate(name) returns.        *)
C30_OverlappingLazyloadsResolveOnce ==
  BothReturned =>
    /\ Cardinality({i \in Callers : overlap[i].resolved}) = 1
    /\ overlap[1].result = overlap[2].result
    /\ Has(registry, overlap[1].name)
    /\ Located(registry, overlap[1].name).result = overlap[1].result

----------------------------------------------------------------------------
(* The locator used by callers that do not wait for one another: a call is  *)
(* made while another call is suspended at an await. Each call runs from    *)
(* one await to the next in one step, and the steps of the calls in flight  *)
(* are taken in any order.                                                  *)

MaxRounds == 4        \* rounds of the while loop of one destroy call

(* The services of the callers: two names; a declaration names a module    *)
(* with no destroy and uses one of the names or none; lazyload names a      *)
(* module whose destroy returns.                                            *)
MaxInterleaveName == 2

InterleaveNames == 1..MaxInterleaveName

InterleaveBatches ==
  {b \in Batches :
     \A i \in 1..Len(b) :
        /\ b[i].name \in InterleaveNames
        /\ b[i].path = NoDestroy
        /\ Range(b[i].uses) \subseteq InterleaveNames}

NextInterleave ==
  \/ \E cfgs \in InterleaveBatches : EagerCall(cfgs)
  \/ EagerIterate
  \/ EagerResolved
  \/ /\ calls.lazy < MaxLazyCalls
     /\ \E name \in InterleaveNames : LazyCall(name, DestroyOk)
  \/ LazyResolved
  \/ \E name \in InterleaveNames : DeleteCall(name)
  \/ DestroyCall({})
  \/ \E name \in InterleaveNames : DestroySettle(name)
  \/ dest.round < MaxRounds /\ DestroyRound
  \/ Return

SpecInterleave == Init /\ [][NextInterleave]_vars

----------------------------------------------------------------------------
(* C31: delete(A) called while eagerload is suspended in the resolution of  *)
(* a declaration B that uses A (the check of uses has passed, the uses of B *)
(* are not recorded yet) leaves no state in which the priority relation     *)
(* records A in the uses of B while A is not registered: every name that a  *)
(* recorded uses lists is registered.                                       *)

(* the names that a recorded uses lists and the registry does not hold *)
Dangling == Flat(priority) \ DOMAIN registry

C31_RecordedUsesAreRegistered == Dangling = {}

----------------------------------------------------------------------------
(* The operations of Map that the locator inherits and the proxy hands out: *)
(* the get trap, part_001:36, binds this[key] to the locator, so            *)
(* locator.set(name, service) is Locator.set (and locator[name] = service   *)
(* goes to it through the set trap, part_001:34) and locator.clear() is     *)
(* Map.prototype.clear, which empties the Map and knows nothing of          *)
(* #priority.                                                               *)

(* set(serviceName, service), part_001:48-52 *)
SetCall(name, svc) ==
  /\ registry' = MapSet(registry, name, svc)
  /\ order' = OrderSet(order, registry, name)
  /\ UNCHANGED <<priority, eager, lazy, del, dest, loc, expand, calls,
                 overlap>>

(* clear(): Map.prototype.clear *)
ClearCall ==
  /\ registry' = <<>>
  /\ order' = <<>>
  /\ UNCHANGED <<priority, eager, lazy, del, dest, loc, expand, calls,
                 overlap>>

(* the declarations of the callers: modules with no destroy *)
MapBatches ==
  {b \in Batches : \A i \in 1..Len(b) : b[i].path = NoDestroy}

(* The locator used by one caller at a time through all of its operations.  *)
(* A destroy call is followed for MaxRounds rounds.                         *)
NextMap ==
  \/ Quiet /\ \E cfgs \in MapBatches : EagerCall(cfgs)
  \/ EagerIterate
  \/ EagerResolved
  \/ Quiet /\ \E name \in Names, svc \in {DestroyOk, NoDestroy} : SetCall(name, svc)
  \/ Quiet /\ ClearCall
  \/ Quiet /\ \E name \in Names : DeleteCall(name)
  \/ Quiet /\ DestroyCall({})
  \/ \E name \in Names : DestroySettle(name)
  \/ dest.round < MaxRounds /\ DestroyRound
  \/ Return

SpecMap == Init /\ [][NextMap]_vars

----------------------------------------------------------------------------
(* C32: destroy() terminates with an empty registry from every state that   *)
(* the operations of the locator reach, set and clear included: while the   *)
(* registry is not empty a round has a name to remove, that is, some        *)
(* registered name is listed by no recorded uses.                           *)

C32_SomeRegisteredNameIsUnused ==
  DOMAIN registry # {} => Filtered(order, priority) # <<>>

----------------------------------------------------------------------------
(* C33: during one eagerload call, with no other call made while it is      *)
(* suspended, the registry only grows. A step of the                        *)
(* call removes no registered name and leaves every registered name with    *)
(* the instance it has; a name it registers is the name of the declaration  *)
(* whose resolution was awaited, was not registered, and is the name of no  *)
(* declaration the call has registered before (of the declarations of one   *)
(* name only the first to resolve is registered); the call counts a         *)
(* declaration as loaded only when it registers its name.                   *)

(* a step of the eagerload call in flight *)
EagerloadRuns == eager.pc \in {"expand", "resolve"}

NewNames == DOMAIN registry' \ DOMAIN registry

LoadedNames(e) == {e.batch[e.loaded[i]].name : i \in 1..Len(e.loaded)}

C33_RegistryOnlyGrows ==
  [][EagerloadRuns =>
       /\ \A n \in DOMAIN registry : Has(registry', n) /\ registry'[n] = registry[n]
       /\ Cardinality(NewNames) <= 1
       /\ Len(eager'.loaded) = Len(eager.loaded) + Cardinality(NewNames)
       /\ \A n \in NewNames :
            /\ eager.pc = "resolve"
            /\ n = eager.batch[eager.cfgs[eager.idx]].name
            /\ n \notin LoadedNames(eager)
            /\ n \notin eager.names0
            /\ eager'.loaded = Append(eager.loaded, eager.cfgs[eager.idx])]_vars

(* an eagerload of two declarations of one name and of different modules    *)
(* has succeeded: the first is registered, the second was not loaded        *)
C33_Witness ==
  /\ eager.pc = "ok"
  /\ Len(eager.batch) = 2
  /\ eager.batch[1].name = eager.batch[2].name
  /\ eager.batch[1].path # eager.batch[2].path
  /\ eager.batch[2].path \in InstancePaths
  /\ eager.loaded = <<1>>
  /\ registry[eager.batch[1].name] = eager.batch[1].path

----------------------------------------------------------------------------
(* C34: eagerload does not roll back. When it has failed with               *)
(* E_LOCATOR_EAGERLOAD or E_LOCATOR_SERVICE_UNRESOLVABLE, every declaration *)
(* it resolved is registered with the instance of its module and, if it has *)
(* uses, with them recorded; the names registered are those registered      *)
(* before the call and those of the declarations it resolved, so a declared *)
(* name is absent exactly when no declaration of it resolved.               *)

EagerloadFailed ==
  /\ eager.pc = "failed"
  /\ eager.error \in {"E_LOCATOR_EAGERLOAD", "E_LOCATOR_SERVICE_UNRESOLVABLE"}

C34_FailedEagerloadKeepsWhatItLoaded ==
  EagerloadFailed =>
    /\ \A i \in 1..Len(eager.loaded) :
         LET d == eager.batch[eager.loaded[i]]
             r == ResolveService(d.path, registry)
         IN /\ Has(registry, d.name)
            /\ r.type = "value"
            /\ registry[d.name] = r.svc
            /\ Len(d.uses) > 0 => Has(priority, d.name) /\ priority[d.name] = d.uses
    /\ DOMAIN registry = eager.names0 \cup LoadedNames(eager)
    /\ \A i \in 1..Len(eager.batch) :
         ~Has(registry, eager.batch[i].name) <=>
            /\ eager.batch[i].name \notin eager.names0
            /\ eager.batch[i].name \notin LoadedNames(eager)

(* an eagerload of two declarations has failed with E_LOCATOR_EAGERLOAD in  *)
(* its second pass: the first declaration, with uses, was resolved in the   *)
(* first pass, the second never                                             *)
C34_Witness ==
  /\ eager.pc = "failed"
  /\ eager.error = "E_LOCATOR_EAGERLOAD"
  /\ eager.attempt = 2
  /\ Len(eager.batch) = 2
  /\ eager.loaded = <<1>>
  /\ eager.batch[1].uses # <<>>
  /\ Has(priority, eager.batch[1].name)
  /\ ~Has(registry, eager.batch[2].name)

----------------------------------------------------------------------------
(* C35: when eagerload has failed with E_LOCATOR_EAGERLOAD because a pass   *)
(* made no progress (not at the ceiling of attempts), the cause holds one   *)
(* error for each declaration of that pass and no other, in the order of    *)
(* the declarations: the error at place m is the one the declaration at     *)
(* place m of the pass failed with in that pass, whatever it failed with in *)
(* the passes before.                                                       *)

NoProgress ==
  /\ eager.pc = "failed"
  /\ eager.error = "E_LOCATOR_EAGERLOAD"
  /\ eager.attempt < MaxAttempts

(* what the declaration d fails with in a pass that registers nothing *)
ErrorOf(d, reg) ==
  IF ~UsesLoaded(d.uses, reg) THEN "E_LOCATOR_SERVICE_PRIORITY"
  ELSE ResolveService(d.path, reg).code

C35_CauseIsTheErrorsOfTheFailingPass ==
  NoProgress =>
    /\ Len(eager.cause) = Len(eager.cfgs)
    /\ Len(eager.cause) > 0
    /\ \A m \in 1..Len(eager.cfgs) :
         /\ ~Has(registry, eager.batch[eager.cfgs[m]].name)
         /\ eager.cause[m] # ""
         /\ eager.cause[m] = ErrorOf(eager.batch[eager.cfgs[m]], registry)
    /\ \A m, n \in 1..Len(eager.cfgs) : m < n => eager.cfgs[m] < eager.cfgs[n]

(* the second pass of an eagerload has failed on its one declaration, which *)
(* uses the name the other declaration registered in the first pass: the    *)
(* cause is the error of its module, without the error of the first pass    *)
C35_Witness ==
  /\ NoProgress
  /\ eager.attempt = 2
  /\ Len(eager.batch) = 2
  /\ eager.cfgs = <<1>>
  /\ eager.loaded = <<2>>
  /\ eager.batch[1].uses = <<eager.batch[2].name>>
  /\ eager.batch[2].name \notin eager.names0
  /\ eager.cause = <<"E_LOCATOR_UNKNOWN_LOCATOR">>

----------------------------------------------------------------------------
(* C36: within one pass the declarations are resolved one at a time in the  *)
(* order of the list, and the next pass is given exactly the declarations   *)
(* that failed in the pass, in the same order; so a declaration sees the    *)
(* services registered before it in the same pass, and the batch [A, B]     *)
(* with B using A is registered in one pass.                                *)

(* the names registered when pass n comes to the declaration at place p of  *)
(* the batch: those registered before the call, those the passes before     *)
(* registered and those of the declarations before it in this pass          *)
SeenAt(e, p, n) ==
  e.names0 \cup
    {e.batch[e.loaded[i]].name :
       i \in {k \in 1..Len(e.loaded) :
                \/ e.passes[k] < n
                \/ e.passes[k] = n /\ e.loaded[k] < p}}

(* while a declaration is awaited, those before it in the pass are          *)
(* registered or queued and none after it is; the declarations a pass has   *)
(* registered were registered in the order of the list                      *)
InListOrder ==
  /\ eager.pc = "resolve" =>
       /\ \A m \in 1..(eager.idx - 1) :
            \/ Has(registry, eager.batch[eager.cfgs[m]].name)
            \/ eager.cfgs[m] \in Range(eager.queued)
       /\ \A m \in eager.idx..Len(eager.cfgs) :
            /\ eager.cfgs[m] \notin Range(eager.queued)
            /\ eager.cfgs[m] \notin Range(eager.loaded)
  /\ \A i, j \in 1..Len(eager.loaded) :
       i < j => \/ eager.passes[i] < eager.passes[j]
                \/ /\ eager.passes[i] = eager.passes[j]
                   /\ eager.loaded[i] < eager.loaded[j]

(* the batch [A, B] with B using A, of modules that resolve, neither name   *)
(* registered before, is registered in the first pass                       *)
OnePass ==
  (/\ EagerDone
   /\ Len(eager.batch) = 2
   /\ eager.batch[1].uses = <<>>
   /\ eager.batch[2].uses = <<eager.batch[1].name>>
   /\ eager.batch[1].name # eager.batch[2].name
   /\ {eager.batch[1].name, eager.batch[2].name} \cap eager.names0 = {}
   /\ {eager.batch[1].path, eager.batch[2].path} \subseteq InstancePaths)
  => /\ eager.pc = "ok"
     /\ eager.attempt = 1
     /\ eager.loaded = <<1, 2>>
     /\ eager.passes = <<1, 1>>

(* the first pass is given the batch; the pass after pass n is given the    *)
(* declarations of pass n that were neither registered in it nor passed     *)
(* over as registered, in the order they had                                *)
NextPassIsTheFailed ==
  /\ (eager.pc = "expand" /\ eager'.attempt = 1) =>
        eager'.cfgs = [i \in 1..Len(eager.batch) |-> i]
  /\ (eager.pc = "resolve" /\ eager'.attempt = eager.attempt) =>
        /\ eager'.cfgs = eager.cfgs
        /\ eager'.pc = "resolve" => eager'.idx > eager.idx
  /\ (eager.pc = "resolve" /\ eager'.attempt = eager.attempt + 1) =>
        LET FailedIn(p) ==
              /\ p \notin Range(eager'.loaded)
              /\ eager.batch[p].name \notin SeenAt(eager', p, eager.attempt)
        IN eager'.cfgs = SelectSeq(eager.cfgs, FailedIn)

C36_PassesInListOrder ==
  /\ [](InListOrder /\ OnePass)
  /\ [][NextPassIsTheFailed]_vars

(* the batch [A, B] with B using A has been registered in one pass *)
C36_Witness ==
  /\ eager.pc = "ok"
  /\ Len(eager.batch) = 2
  /\ eager.batch[2].uses = <<eager.batch[1].name>>
  /\ eager.batch[1].name # eager.batch[2].name
  /\ eager.names0 = {}
  /\ eager.loaded = <<1, 2>>
  /\ eager.passes = <<1, 1>>
  /\ DOMAIN priority = {eager.batch[2].name}
  /\ priority[eager.batch[2].name] = <<eager.batch[1].name>>

----------------------------------------------------------------------------
(* C37: every instance that lazyload or eagerload registers is truthy. When *)
(* the resolution of a path yields a falsy value (the locate of the module  *)
(* returns undefined, null, false, 0 or an empty string, or the directory   *)
(* has no entry file) nothing is registered: lazyload fails with            *)
(* E_LOCATOR_LAZYLOAD whose cause is E_LOCATOR_SERVICE_UNRESOLVABLE and     *)
(* eagerload fails at once with E_LOCATOR_SERVICE_UNRESOLVABLE.             *)

YieldsFalsy(path, reg) ==
  LET r == ResolveLocator(path, reg)
  IN r.type = "nothing" \/ (r.type = "value" /\ r.svc \in FalsyValues)

AllTruthy == \A n \in DOMAIN registry : IsTruthy(registry[n])

LazyloadOfFalsy ==
  (/\ lazy.pc = "resolve"
   /\ lazy'.pc # "resolve"
   /\ YieldsFalsy(lazy.path, registry))
  => /\ lazy'.pc = "failed"
     /\ lazy'.error = "E_LOCATOR_LAZYLOAD"
     /\ lazy'.cause = "E_LOCATOR_SERVICE_UNRESOLVABLE"
     /\ UNCHANGED <<registry, order, priority>>

EagerloadOfFalsy ==
  (/\ eager.pc = "resolve"
   /\ eager' # eager
   /\ YieldsFalsy(eager.batch[eager.cfgs[eager.idx]].path, registry))
  => /\ eager'.pc = "failed"
     /\ eager'.error = "E_LOCATOR_SERVICE_UNRESOLVABLE"
     /\ eager'.attempt = eager.attempt
     /\ eager'.queued = eager.queued
     /\ eager'.loaded = eager.loaded
     /\ UNCHANGED <<registry, order, priority>>

C37_OnlyTruthyInstancesAreRegistered ==
  /\ []AllTruthy
  /\ [][LazyloadOfFalsy /\ EagerloadOfFalsy]_vars

(* an eagerload has registered its first declaration and has failed on the  *)
(* second, whose module has a locate that returns the number 0              *)
C37_Witness ==
  /\ eager.pc = "failed"
  /\ eager.error = "E_LOCATOR_SERVICE_UNRESOLVABLE"
  /\ eager.attempt = 1
  /\ Len(eager.batch) = 2
  /\ eager.loaded = <<1>>
  /\ eager.batch[2].path \in FalsyPaths
  /\ Returned(eager.batch[2].path) = -3
  /\ DOMAIN registry = {eager.batch[1].name}

----------------------------------------------------------------------------
(* C38: destroy() fails with E_LOCATOR_DESTROY or not at all, also when an  *)
(* eagerload of a declaration that uses a service whose destroy invocation  *)
(* is pending completes before the invocation settles: the removal of a     *)
(* service in destroy() never throws E_LOCATOR_DELETE and destroy() is      *)
(* never rejected with another error.                                       *)

C38_DestroyFailsOnlyWithDestroy ==
  /\ ~dest.thrown
  /\ dest.pc = "failed" => dest.error = "E_LOCATOR_DESTROY"

----------------------------------------------------------------------------
(* C39: lazyload leaves the priority relation as it is, whether it          *)
(* registers the name, fails, or finds the name registered. The name it     *)
(* registers has no recorded uses, and a registered name with no recorded   *)
(* uses gets none for as long as it is registered; so a delete that is      *)
(* refused is refused because another registered name, with uses recorded   *)
(* by eagerload, lists the name.                                            *)

(* a step of a lazyload call: the call, or the end of its resolution *)
LazyloadStep ==
  \/ lazy.pc = "idle" /\ lazy'.pc \in {"ok", "resolve"}
  \/ lazy.pc = "resolve" /\ lazy'.pc \in {"ok", "failed"}

LazyloadKeepsPriority ==
  LazyloadStep =>
    /\ UNCHANGED priority
    /\ (lazy.pc = "resolve" /\ lazy'.pc = "ok") =>
         /\ Has(registry', lazy.name)
         /\ ~Has(priority', lazy.name)

NoUsesLater ==
  \A n \in DOMAIN registry \ DOMAIN priority :
     Has(registry', n) => ~Has(priority', n)

RefusedForADependent ==
  (DeleteStep /\ del'.error # "") =>
    /\ del'.error = "E_LOCATOR_DELETE"
    /\ \E B \in DOMAIN priority \cap DOMAIN registry :
         /\ B # del'.name
         /\ del'.name \in Range(priority[B])

C39_LazyloadRecordsNoUses ==
  [][LazyloadKeepsPriority /\ NoUsesLater /\ RefusedForADependent]_vars

(* delete of a name registered by lazyload has been refused: the one        *)
(* eagerload call, of two declarations, registered the two names that have  *)
(* recorded uses, both listing the third name, which the lazyload call      *)
(* registered before                                                        *)
C39_Witness ==
  /\ del.pc = "done"
  /\ del.error = "E_LOCATOR_DELETE"
  /\ calls.lazy = 1
  /\ calls.eager = 1
  /\ Cardinality(DOMAIN registry) = MaxBatch + 1
  /\ DOMAIN priority = DOMAIN registry \ {del.name}
  /\ \A B \in DOMAIN priority : priority[B] = <<del.name>>
  /\ Has(registry, del.name)

====
